---- MODULE Spec2Model ----
EXTENDS Integers, Sequences, FiniteSets, TLC

\* ------------------------------------------------------------------
\* Strings are sequences of one-character strings; positions are the
\* 0-based JavaScript offsets used by the code.
\* ------------------------------------------------------------------

\* absent entry of the spans map
NoSpan == [start |-> -1, end |-> -1, type |-> "none"]

Ids == 1..6

\* options without a _spanTracker
NoTracker == [on |-> FALSE, spans |-> [n \in Ids |-> NoSpan], cur |-> 0, pp |-> "none"]

\* mutant: the search ignores its start position
IndexOfNoFrom(s, sub, from) ==
  LET cands == {j \in 0..(Len(s) - Len(sub)) : SubSeq(s, j + 1, j + Len(sub)) = sub}
  IN IF cands = {} THEN -1 ELSE CHOOSE j \in cands : \A l \in cands : j <= l

\* the offsets at or after f where sub occurs
IndexCands(s, sub, f) == {i \in f..(Len(s) - Len(sub)) : SubSeq(s, i + 1, i + Len(sub)) = sub}

\* the least of the candidate offsets, -1 if none
IndexMin(cands) == IF cands = {} THEN -1 ELSE CHOOSE i \in cands : \A j \in cands : i <= j

\* JS String.prototype.indexOf(sub, from), 0-based, -1 if absent
IndexOf(s, sub, from) ==
  IndexMin(IndexCands(s, sub, IF from < 0 THEN 0 ELSE IF from > Len(s) THEN Len(s) ELSE from))

\* JS String.prototype.substring(start, end) for 0 <= start <= end <= Len(s)
Substring(s, a, b) == SubSeq(s, a + 1, b)

IsWs(c) == c \in {" ", "\n"}

RECURSIVE TrimLeft(_)
TrimLeft(s) == IF Len(s) > 0 /\ IsWs(Head(s)) THEN TrimLeft(Tail(s)) ELSE s
RECURSIVE TrimRight(_)
TrimRight(s) == IF Len(s) > 0 /\ IsWs(s[Len(s)]) THEN TrimRight(SubSeq(s, 1, Len(s) - 1)) ELSE s
\* JS String.prototype.trim
Trim(s) == TrimRight(TrimLeft(s))

\* s.replace(/\n/g, '\n\n')
RECURSIVE DoubleNewlines(_)
DoubleNewlines(s) ==
  IF s = <<>> THEN <<>>
  ELSE (IF Head(s) = "\n" THEN <<"\n", "\n">> ELSE <<Head(s)>>) \o DoubleNewlines(Tail(s))

LatexSpecialChars == {"&", "%", "#", "_", "{", "}", "~", "^", "\\"}

RECURSIVE BackslashRun(_, _)
\* number of consecutive backslashes ending at 1-based index j
BackslashRun(s, j) == IF j >= 1 /\ s[j] = "\\" THEN 1 + BackslashRun(s, j - 1) ELSE 0

RECURSIVE EscapeFrom(_, _)
EscapeFrom(s, i) ==
  IF i > Len(s) THEN <<>>
  ELSE LET c == s[i]
           escaped == BackslashRun(s, i - 1) % 2 = 1
       IN (IF c \in LatexSpecialChars /\ ~escaped THEN <<"\\", c>> ELSE <<c>>)
          \o EscapeFrom(s, i + 1)
RECURSIVE EscapeFromAnyRun(_, _)
EscapeFromAnyRun(s, i) ==
  IF i > Len(s) THEN <<>>
  ELSE LET c == s[i]
           escaped == BackslashRun(s, i - 1) > 0
       IN (IF c \in LatexSpecialChars /\ ~escaped THEN <<"\\", c>> ELSE <<c>>)
          \o EscapeFromAnyRun(s, i + 1)

\* mutant: any preceding backslash counts as an escape
escapeLatexSpecialCharsAnyRun(s) == IF s = <<>> THEN <<>> ELSE EscapeFromAnyRun(s, 1)

\* escapeLatexSpecialChars
escapeLatexSpecialChars(s) == IF s = <<>> THEN <<>> ELSE EscapeFrom(s, 1)

\* ------------------------------------------------------------------
\* Node trees. A tree is a record of per-node fields over Ids plus the
\* top-level node list passed to toLatexWithSpans / toMarkdownWithSpans.
\* ------------------------------------------------------------------

Kinds == {"text", "ref", "group", "section", "equation"}

\* AbstractTokenNode.isInline via IsInlineToken (equations here are inline)
IsInline(t, n) == t.kind[n] \in {"text", "ref", "equation"}

hasChildren(t, n) == Len(t.ch[n]) > 0

\* BaseEnvTokenNode.getData(role)
RoleData(t, n, r) == SelectSeq(t.ch[n], LAMBDA c : t.role[c] = r)
getTitleData(t, n) == RoleData(t, n, "title")
getContentData(t, n) == RoleData(t, n, "content")

\* SectionTokenNode.prefix
SectionPrefix(lvl) ==
  IF lvl = 1 THEN <<"\\", "s", "e", "c", "t", "i", "o", "n">>
  ELSE <<"\\", "s", "u", "b", "s", "e", "c", "t", "i", "o", "n">>

\* node id string (abstracted to a short id per node)
IdStr(n) == <<"i", ToString(n)>>

\* ------------------------------------------------------------------
\* Copy content (no tracker involved)
\* ------------------------------------------------------------------
RECURSIVE getCopyContent(_, _), GetCopyContentAcc(_, _, _, _), JoinCopy(_, _)

\* data.map((t) => t.getCopyContent()).join("")
JoinCopy(t, seq) == IF seq = <<>> THEN <<>> ELSE getCopyContent(t, Head(seq)) \o JoinCopy(t, Tail(seq))

GetCopyContentAcc(t, seq, k, acc) ==
  IF k > Len(seq) THEN acc
  ELSE LET n == seq[k]
           acc1 == IF ~IsInline(t, n) /\ Len(acc) > 0 THEN acc \o <<"\n">> ELSE acc
       IN GetCopyContentAcc(t, seq, k + 1, acc1 \o getCopyContent(t, n))

GetCopyContent(t, seq) == GetCopyContentAcc(t, seq, 1, <<>>)

getCopyContent(t, n) ==
  CASE t.kind[n] = "text" -> t.raw[n]
    [] t.kind[n] = "ref" -> <<"\\", "r", "e", "f", "{">> \o t.raw[n] \o <<"}">>
    [] t.kind[n] = "group" -> GetCopyContentAcc(t, t.ch[n], 1, <<>>)
    [] t.kind[n] = "section" ->
         LET title == IF Len(getTitleData(t, n)) > 0
                      THEN GetCopyContentAcc(t, getTitleData(t, n), 1, <<>>) ELSE <<>>
             content == GetCopyContentAcc(t, getContentData(t, n), 1, <<>>)
         IN IF title # <<>> THEN title \o <<"\n", "\n">> \o content ELSE content
    [] t.kind[n] = "equation" ->
         \* getCopyContent returns getLatexContent(): "$" + trim(children copy) + "$"
         <<"$">> \o Trim(JoinCopy(t, t.ch[n])) \o <<"$">>

\* ------------------------------------------------------------------
\* LaTeX / Markdown rendering with the optional span tracker.
\* A tracker is [on, spans |-> [Ids -> span or NoSpan], cur |-> Nat, pp], on = FALSE when absent,
\* pp the options.postProcess the render was called with
\* (SpanTracker: spans map and position.current). Renderers return
\* [s |-> output, tr |-> tracker after the call].
\* ------------------------------------------------------------------

\* mutant: the tracker is passed on to the nested renders
InnerOptionsKeep(tr) == tr

\* innerOptions: tracker ? { ...options, _spanTracker: undefined } : options
InnerOptions(tr) == [NoTracker EXCEPT !.pp = tr.pp]

\* block separator of GetLatexContent / GetMarkdownContent
BlockSep(f) == IF f = "latex" THEN <<"\n">> ELSE <<"\n", "\n">>

\* ReferenceTokenNode.getMarkdownContent with options.math (single label)
RefMathMd(lbl) == <<"[", "\\", "t", "e", "x", "t", "{", "R", "e", "f", " ">> \o lbl \o <<"}", "]">>

\* EquationTokenNode._getMarkdownDataStr: children rendered with math: true, joined
RECURSIVE JoinMathMd(_, _)
JoinMathMd(t, seq) ==
  IF seq = <<>> THEN <<>>
  ELSE LET c == Head(seq)
           out == CASE t.kind[c] = "text" -> DoubleNewlines(t.raw[c])
                    [] t.kind[c] = "ref" -> RefMathMd(t.raw[c])
       IN out \o JoinMathMd(t, Tail(seq))

SectionAnchor(n) ==
  <<"<", "a", " ", "i", "d", "=", "\"", "s", "e", "c", "-">> \o IdStr(n)
  \o <<"\"", ">", "<", "/", "a", ">", "\n", "\n">>

RECURSIVE HashRepeat(_)
HashRepeat(k) == IF k <= 0 THEN <<>> ELSE <<"#">> \o HashRepeat(k - 1)

\* options.postProcess of a Markdown export: none, or the callback of the
\* repository's test, (n, md) => `<a id="${id}"></a>\n\n${md}`, every node
\* here having an id
PostProcesses == {"none", "anchor"}
postProcess(pp, t, n, md) ==
  IF pp = "none" THEN md
  ELSE <<"<", "a", " ", "i", "d", "=", "\"">> \o IdStr(n) \o <<"\"", ">", "<", "/", "a", ">", "\n", "\n">> \o md

RECURSIVE NodeRender(_, _, _, _), ListRenderAcc(_, _, _, _, _, _), ListStep(_, _, _, _, _)

\* one iteration of the loop of GetLatexContent (f = "latex") or
\* GetMarkdownContent (f = "markdown") on node n, output so far acc; the
\* Markdown loop passes the node's output through options.postProcess
ListStep(f, t, n, acc, tr) ==
  LET sepOn == ~IsInline(t, n) /\ Len(acc) > 0
      acc1 == IF sepOn THEN acc \o BlockSep(f) ELSE acc
      tr1 == IF sepOn /\ tr.on THEN [tr EXCEPT !.cur = @ + Len(BlockSep(f))] ELSE tr
      start == IF tr1.on THEN tr1.cur ELSE 0
      inner == InnerOptions(tr1)
      r == NodeRender(f, t, n, inner)
      trA == IF ~inner.on THEN tr1 ELSE r.tr
      out == IF f = "markdown" THEN postProcess(tr1.pp, t, n, r.s) ELSE r.s
  IN [s |-> acc1 \o out,
      tr |-> IF ~tr1.on THEN tr1
             ELSE [on |-> TRUE, spans |-> [trA.spans EXCEPT ![n] = [start |-> start, end |-> start + Len(out), type |-> t.kind[n]]],
                   cur |-> start + Len(out), pp |-> tr1.pp]]

ListRenderAcc(f, t, seq, k, acc, tr) ==
  IF k > Len(seq) THEN [s |-> acc, tr |-> tr]
  ELSE LET r == ListStep(f, t, seq[k], acc, tr)
       IN ListRenderAcc(f, t, seq, k + 1, r.s, r.tr)

\* node.getLatexContent(options) / node.getMarkdownContent(options)
NodeRender(f, t, n, opts) ==
  LET k == t.kind[n] IN
  CASE k = "text" /\ f = "latex" ->
         [s |-> IF t.raw[n] = <<>> THEN <<>> ELSE DoubleNewlines(escapeLatexSpecialChars(t.raw[n])), tr |-> opts]
    [] k = "text" /\ f = "markdown" ->
         [s |-> IF t.raw[n] = <<>> THEN <<>> ELSE DoubleNewlines(t.raw[n]), tr |-> opts]
    [] k = "ref" /\ f = "latex" ->
         [s |-> <<"\\", "r", "e", "f", "{">> \o t.raw[n] \o <<"}">>, tr |-> opts]
    [] k = "ref" /\ f = "markdown" ->
         [s |-> <<"[">> \o t.raw[n] \o <<"]", "(", "#">> \o t.raw[n] \o <<")">>, tr |-> opts]
    [] k = "group" ->
         IF hasChildren(t, n) THEN ListRenderAcc(f, t, t.ch[n], 1, <<>>, opts) ELSE [s |-> <<>>, tr |-> opts]
    [] k = "section" /\ f = "latex" ->
         LET hasTitle == Len(getTitleData(t, n)) > 0
             r1 == IF hasTitle THEN ListRenderAcc(f, t, getTitleData(t, n), 1, <<>>, opts) ELSE [s |-> <<>>, tr |-> opts]
             prefix == SectionPrefix(t.level[n]) \o <<"{">> \o r1.s \o <<"}">>
             r2 == ListRenderAcc(f, t, getContentData(t, n), 1, <<>>, r1.tr)
         IN [s |-> prefix \o <<"\n">> \o r2.s \o <<"\n">>, tr |-> r2.tr]
    [] k = "section" /\ f = "markdown" ->
         LET hasTitle == Len(getTitleData(t, n)) > 0
             r1 == IF hasTitle THEN ListRenderAcc(f, t, getTitleData(t, n), 1, <<>>, opts) ELSE [s |-> <<>>, tr |-> opts]
             r2 == ListRenderAcc(f, t, getContentData(t, n), 1, <<>>, r1.tr)
             titleStr == SectionAnchor(n) \o HashRepeat(t.level[n] + 1) \o <<" ">> \o r1.s \o <<"\n", "-", "-", "-">>
         IN [s |-> titleStr \o <<"\n", "\n">> \o r2.s, tr |-> r2.tr]
    [] k = "equation" /\ f = "latex" ->
         [s |-> <<"$">> \o Trim(JoinCopy(t, t.ch[n])) \o <<"$">>, tr |-> opts]
    [] k = "equation" /\ f = "markdown" ->
         LET dataStr == JoinMathMd(t, t.ch[n])
         IN [s |-> IF Trim(dataStr) = <<>> THEN <<>> ELSE <<" ", "$">> \o dataStr \o <<"$", " ">>, tr |-> opts]

\* getNodeContent callback of toLatexWithSpans / toMarkdownWithSpans
\* (options without a tracker, options.postProcess kept for nested lists)
getNodeContent(f, t, n, pp) == NodeRender(f, t, n, [NoTracker EXCEPT !.pp = pp]).s

\* ------------------------------------------------------------------
\* TokenExporter.findMissingChildSpans
\* ------------------------------------------------------------------
\* getNodeContent is the callback of the same name (node -> its rendering in the
\* export format) and copyOf is node -> node.getCopyContent(), both pure, given
\* as tables over the nodes
RECURSIVE findMissingChildSpans(_, _, _, _, _), ChildLoop(_, _, _, _, _, _, _, _, _)

findMissingChildSpans(f, t, nodes, c, sp) ==
  IF nodes = <<>> THEN sp
  ELSE LET n == Head(nodes)
           sp1 == IF ~hasChildren(t, n) \/ sp[n] = NoSpan THEN sp
                  ELSE ChildLoop(f, t, n, 1, 0, Substring(c, sp[n].start, sp[n].end), sp[n].start, c, sp)
       IN findMissingChildSpans(f, t, Tail(nodes), c, sp1)

\* mutant: child span not offset by the parent span start
ChildStepNoOffset(f, t, child, searchStart, parentContent, pstart, c, sp) ==
  LET tracked == sp[child] # NoSpan
      out1 == f.getNodeContent[child]
      pos1 == IndexOf(parentContent, out1, searchStart)
      useCopy == pos1 < 0 /\ Len(out1) > 0
      out == IF useCopy THEN f.copyOf[child] ELSE out1
      pos == IF useCopy THEN IndexOf(parentContent, out, searchStart) ELSE pos1
      found == ~tracked /\ pos >= 0 /\ Len(out) > 0
      cs == pos
      sp1 == IF found
             THEN [sp EXCEPT ![child] = [start |-> cs, end |-> cs + Len(out), type |-> t.kind[child]]]
             ELSE sp
  IN [found |-> found, tracked |-> tracked,
      ss |-> IF found THEN pos + Len(out) ELSE searchStart,
      sp |-> IF tracked \/ found THEN findMissingChildSpans(f, t, <<child>>, c, sp1) ELSE sp1]

\* one iteration of the loop over node.getChildren(): an already tracked
\* child is only recursed into; otherwise its getLatexContent /
\* getMarkdownContent output, then its getCopyContent output, is searched in
\* the parent's text from searchStart; a located child is recorded and
\* recursed into (the recursion returns at once for a childless node)
ChildStep(f, t, child, searchStart, parentContent, pstart, c, sp) ==
  LET tracked == sp[child] # NoSpan
      out1 == f.getNodeContent[child]
      pos1 == IndexOf(parentContent, out1, searchStart)
      useCopy == pos1 < 0 /\ Len(out1) > 0
      out == IF useCopy THEN f.copyOf[child] ELSE out1
      pos == IF useCopy THEN IndexOf(parentContent, out, searchStart) ELSE pos1
      found == ~tracked /\ pos >= 0 /\ Len(out) > 0
      cs == pstart + pos
      sp1 == IF found
             THEN [sp EXCEPT ![child] = [start |-> cs, end |-> cs + Len(out), type |-> t.kind[child]]]
             ELSE sp
  IN [found |-> found, tracked |-> tracked,
      ss |-> IF found THEN pos + Len(out) ELSE searchStart,
      sp |-> IF tracked \/ found THEN findMissingChildSpans(f, t, <<child>>, c, sp1) ELSE sp1]

\* mutant: the child loop stops at the first child it cannot locate
ChildLoopStopOnMiss(f, t, p, k, searchStart, parentContent, pstart, c, sp) ==
  IF k > Len(t.ch[p]) THEN sp
  ELSE LET r == ChildStep(f, t, t.ch[p][k], searchStart, parentContent, pstart, c, sp)
       IN IF ~r.found /\ ~r.tracked THEN r.sp
          ELSE ChildLoop(f, t, p, k + 1, r.ss, parentContent, pstart, c, r.sp)

\* the loop over node.getChildren() of one parent
ChildLoop(f, t, p, k, searchStart, parentContent, pstart, c, sp) ==
  IF k > Len(t.ch[p]) THEN sp
  ELSE LET r == ChildStep(f, t, t.ch[p][k], searchStart, parentContent, pstart, c, sp)
       IN ChildLoop(f, t, p, k + 1, r.ss, parentContent, pstart, c, r.sp)

\* ------------------------------------------------------------------
\* Input trees (nodes built by the factory from tokens)
\* ------------------------------------------------------------------
EmptyLeaf == [kind |-> "text", raw |-> <<>>]
LeafTexts == {<<>>, <<"a">>, <<"_">>, <<" ", "a">>}
TextChoices == {[kind |-> "text", raw |-> r] : r \in LeafTexts}
LeafChoices == TextChoices \cup {[kind |-> "ref", raw |-> <<"a">>]}

Tree(lf, kov, chov, roleov, lvlov, roots) ==
  LET L == [n \in Ids |-> IF n \in DOMAIN lf THEN lf[n] ELSE EmptyLeaf] IN
  [kind |-> [n \in Ids |-> IF n \in DOMAIN kov THEN kov[n] ELSE L[n].kind],
   raw |-> [n \in Ids |-> L[n].raw],
   level |-> [n \in Ids |-> IF n \in DOMAIN lvlov THEN lvlov[n] ELSE 1],
   ch |-> [n \in Ids |-> IF n \in DOMAIN chov THEN chov[n] ELSE <<>>],
   role |-> [n \in Ids |-> IF n \in DOMAIN roleov THEN roleov[n] ELSE "content"],
   roots |-> roots]

Trees ==
  \* flat list of two leaves
  {Tree(1 :> a @@ 2 :> b, <<>>, <<>>, <<>>, <<>>, <<1, 2>>) : a, b \in LeafChoices}
  \cup
  \* a group or a section (with or without title) with two children
  {Tree(2 :> a @@ 3 :> b, 1 :> k, 1 :> <<2, 3>>,
        IF k = "section" /\ titled THEN 2 :> "title" ELSE <<>>, <<>>, <<1>>) :
     k \in {"group", "section"}, titled \in BOOLEAN, a, b \in LeafChoices}
  \cup
  \* an inline equation with two text children
  {Tree(2 :> a @@ 3 :> b, 1 :> "equation", 1 :> <<2, 3>>, <<>>, <<>>, <<1>>) : a, b \in TextChoices}
  \cup
  \* section > (title, text, subsection > (title, text))
  {Tree(2 :> a @@ 3 :> b @@ 5 :> c @@ 6 :> d, 1 :> "section" @@ 4 :> "section",
        1 :> <<2, 3, 4>> @@ 4 :> <<5, 6>>, 2 :> "title" @@ 5 :> "title", 4 :> 2, <<1>>) :
     a, b, c, d \in LeafChoices}
  \cup
  \* a group with two children followed by a top-level leaf
  {Tree(2 :> a @@ 3 :> b @@ 4 :> c, 1 :> "group", 1 :> <<2, 3>>, <<>>, <<>>, <<1, 4>>) :
     a, b, c \in LeafChoices}
  \cup
  \* a group with two children followed by an empty top-level section
  {Tree(2 :> a @@ 3 :> b, 1 :> "group" @@ 4 :> "section", 1 :> <<2, 3>>, <<>>, <<>>, <<1, 4>>) :
     a, b \in LeafChoices}

Range(sq) == {sq[k] : k \in DOMAIN sq}

RECURSIVE Subtree(_, _)
Subtree(t, n) == {n} \cup UNION {Subtree(t, c) : c \in Range(t.ch[n])}
Reach(t) == UNION {Subtree(t, r) : r \in Range(t.roots)}

\* ------------------------------------------------------------------
\* toLatexWithSpans / toMarkdownWithSpans: the tracked GetLatexContent /
\* GetMarkdownContent loop over the top-level nodes, one step per node,
\* then findMissingChildSpans.
\* ------------------------------------------------------------------
VARIABLES tree, fmt, post, pc, i, content, spans, cursor
\* SpanMatcher state (fullText, spans, sortedSpans) and the query in progress
VARIABLES mtext, mspans, msorted, mpc, mquery, mss, mres

mvars == <<mtext, mspans, msorted, mpc, mquery, mss, mres>>

vars == <<tree, fmt, post, pc, i, content, spans, cursor>>

\* no SpanMatcher constructed
MIdle ==
  /\ mtext = <<>> /\ mspans = <<>> /\ msorted = <<>> /\ mpc = "idle"
  /\ mquery = [op |-> "none", pos |-> 0, excerpt |-> <<>>, findAll |-> FALSE]
  /\ mss = 0 /\ mres = <<>>

\* a JS number read from posMap: undefined outside the array; undefined + 1
\* is NaN, and every comparison with either is false
Undef == [def |-> FALSE, v |-> 0]
Num(v) == [def |-> TRUE, v |-> v]

NoNorm == [normalized |-> <<>>, posMap |-> <<>>]
NoMatch == [found |-> FALSE, m |-> -1, se |-> <<>>, start |-> Undef, end |-> Undef, rows |-> <<>>]

\* normalizer state: the text (and the pieces it is made of), the
\* normalizer, its result, a second normalization of the result, and a
\* normalized matchExcerpt
VARIABLES npieces, ntext, nkind, npc, nres, nagain, nexcerpt, nmatch

nvars == <<npieces, ntext, nkind, npc, nres, nagain, nexcerpt, nmatch>>

\* no normalizer in use
NIdle ==
  /\ npieces = <<>> /\ ntext = <<>> /\ nkind = "latex" /\ npc = "off"
  /\ nres = NoNorm /\ nagain = NoNorm /\ nexcerpt = <<>> /\ nmatch = NoMatch

\* a JS number that is a ratio of integers (den > 0), compared exactly: the
\* scores are 2 * lcs / (m + n) of small integers, so the IEEE quotients
\* order as the ratios do
Ratio(n, d) == [num |-> n, den |-> d]
RatEq(r, q) == r.num * q.den = q.num * r.den
RatLt(r, q) == r.num * q.den < q.num * r.den

\* findFuzzyMatch returning null (best: the best window score found)
NoFuzzy == [found |-> FALSE, start |-> 0, end |-> 0, score |-> Ratio(0, 1), best |-> Ratio(0, 1)]

\* fuzzy matching state: two strings, a threshold, similarity in both
\* argument orders, and a findFuzzyMatch result
VARIABLES fpc, fa, fb, fthr, fsim, fsimRev, fres

fvars == <<fpc, fa, fb, fthr, fsim, fsimRev, fres>>

\* no fuzzy matching in progress
FIdle ==
  /\ fpc = "off" /\ fa = <<>> /\ fb = <<>> /\ fthr = Ratio(0, 1)
  /\ fsim = Ratio(0, 1) /\ fsimRev = Ratio(0, 1) /\ fres = NoFuzzy

\* matchExcerptWithFallback state: the strategy reached, the ellipsis parts,
\* the part index, the attempts made so far and the returned rows
VARIABLES xpc, xparts, xk, xtried, xout

xvars == <<xpc, xparts, xk, xtried, xout>>

\* no matchExcerptWithFallback call in progress
XIdle == xpc = "off" /\ xparts = <<>> /\ xk = 0 /\ xtried = <<>> /\ xout = <<>>

\* a call of one function in isolation: which call, its input and its result
VARIABLES gpc, gin, gout

gvars == <<gpc, gin, gout>>

\* no such call in progress
GIdle == gpc = "off" /\ gin = <<>> /\ gout = <<>>

Init ==
  /\ tree \in Trees
  /\ fmt \in {"latex", "markdown"}
  /\ post \in IF fmt = "markdown" THEN PostProcesses ELSE {"none"}
  /\ pc = "render"
  /\ i = 1
  /\ content = <<>>
  /\ spans = [n \in Ids |-> NoSpan]
  /\ cursor = 0
  /\ MIdle
  /\ NIdle
  /\ FIdle
  /\ XIdle
  /\ GIdle

RenderNode ==
  /\ pc = "render"
  /\ i <= Len(tree.roots)
  /\ LET r == ListStep(fmt, tree, tree.roots[i], content, [on |-> TRUE, spans |-> spans, cur |-> cursor, pp |-> post])
     IN /\ content' = r.s
        /\ spans' = r.tr.spans
        /\ cursor' = r.tr.cur
  /\ i' = i + 1
  /\ UNCHANGED <<tree, fmt, post, pc>>
  /\ UNCHANGED mvars
  /\ UNCHANGED nvars
  /\ UNCHANGED fvars
  /\ UNCHANGED xvars
  /\ UNCHANGED gvars

\* the getNodeContent callback and getCopyContent of every node
Callbacks(f, t, pp) ==
  [getNodeContent |-> [n \in Ids |-> getNodeContent(f, t, n, pp)],
   copyOf |-> [n \in Ids |-> getCopyContent(t, n)]]

Reconcile ==
  /\ pc = "render"
  /\ i > Len(tree.roots)
  /\ spans' = findMissingChildSpans(Callbacks(fmt, tree, post), tree, tree.roots, content, spans)
  /\ pc' = "done"
  /\ UNCHANGED <<tree, fmt, post, i, content, cursor>>
  /\ UNCHANGED mvars
  /\ UNCHANGED nvars
  /\ UNCHANGED fvars
  /\ UNCHANGED xvars
  /\ UNCHANGED gvars

Next == RenderNode \/ Reconcile

Spec == Init /\ [][Next]_vars

Mapped == {n \in Ids : spans[n] # NoSpan}
SpanText(n) == Substring(content, spans[n].start, spans[n].end)

IsRoot(n) == n \in Range(tree.roots)

\* sibling lists: the children of every node, and the top-level list
SiblingLists == {tree.ch[p] : p \in Reach(tree)} \cup {tree.roots}

\* ---- C1 ----
\* C1: containment. For every node P and direct child C that both have a
\* span, P.start <= C.start and C.end <= P.end.
C1_Containment ==
  \A p \in Reach(tree) : \A c \in Range(tree.ch[p]) :
    (spans[p] # NoSpan /\ spans[c] # NoSpan)
      => (spans[p].start <= spans[c].start /\ spans[c].end <= spans[p].end)

\* a mapped grandchild inside a mapped child whose span does not start at 0
C1_Witness ==
  /\ pc = "done"
  /\ \E p \in Reach(tree) : \E c \in Range(tree.ch[p]) :
       ~IsRoot(p) /\ spans[p] # NoSpan /\ spans[c] # NoSpan /\ spans[p].start > 0

\* ---- C2 ----
\* C2 (as stated): the text under every mapped span equals the node's own
\* rendering in the export format (getLatexContent / getMarkdownContent).
C2_Original ==
  pc = "done" => \A n \in Mapped : SpanText(n) = getNodeContent(fmt, tree, n, post)

\* C2 (amended): the text under a top-level span is the node's own rendering
\* in the export format passed through options.postProcess (Markdown only;
\* the rendering itself without a postProcess, and in LaTeX). The text under
\* a child span located by the reconciliation pass is the child's own
\* rendering, or its getCopyContent output when it was located through the
\* getCopyContent fallback.
C2_Accuracy ==
  pc = "done" =>
    \A n \in Mapped :
      IF IsRoot(n)
      THEN SpanText(n) = IF fmt = "markdown"
                         THEN postProcess(post, tree, n, getNodeContent(fmt, tree, n, post))
                         ELSE getNodeContent(fmt, tree, n, post)
      ELSE \/ SpanText(n) = getNodeContent(fmt, tree, n, post)
           \/ SpanText(n) = getCopyContent(tree, n)

\* a postProcess export: a mapped child after offset 0 (located inside its
\* post-processed parent) and a top-level node whose span holds the anchor
C2_Witness ==
  /\ pc = "done"
  /\ post = "anchor"
  /\ \E n \in Mapped : ~IsRoot(n) /\ spans[n].start > 0
                       /\ SpanText(n) = getNodeContent(fmt, tree, n, post)
  /\ \E n \in Mapped : IsRoot(n) /\ SpanText(n) # getNodeContent(fmt, tree, n, post)

\* ---- C3 ----
\* output of the top-level list before node k, without tracking
TopPrefix(k) == ListRenderAcc(fmt, tree, SubSeq(tree.roots, 1, k - 1), 1, <<>>, [NoTracker EXCEPT !.pp = post]).s
TopStart(k) ==
  Len(TopPrefix(k))
  + (IF ~IsInline(tree, tree.roots[k]) /\ Len(TopPrefix(k)) > 0 THEN Len(BlockSep(fmt)) ELSE 0)
TopEnd(k) == TopStart(k) + Len(postProcess(post, tree, tree.roots[k], getNodeContent(fmt, tree, tree.roots[k], post)))

\* C3 (as stated): top-level node k has exactly the span object
\* {start: TopStart(k), end: TopEnd(k)}.
C3_Original ==
  \A k \in 1..(i - 1) : spans[tree.roots[k]] = [start |-> TopStart(k), end |-> TopEnd(k)]

\* ---- C4 ----
\* C4: mapped siblings (children of one node, or the top-level nodes) come
\* in render order: an earlier sibling starts no later and ends no later
\* than the start of a later one.
C4_SiblingOrder ==
  \A sq \in SiblingLists : \A j, k \in DOMAIN sq :
    (j < k /\ spans[sq[j]] # NoSpan /\ spans[sq[k]] # NoSpan)
      => (spans[sq[j]].start <= spans[sq[k]].start /\ spans[sq[j]].end <= spans[sq[k]].start)

\* two reconciled siblings with the same rendering, both mapped
C4_Witness ==
  /\ pc = "done"
  /\ \E p \in Reach(tree) : \E j, k \in DOMAIN tree.ch[p] :
       /\ j < k
       /\ spans[tree.ch[p][j]] # NoSpan /\ spans[tree.ch[p][k]] # NoSpan
       /\ getNodeContent(fmt, tree, tree.ch[p][j], post) = getNodeContent(fmt, tree, tree.ch[p][k], post)

\* ---- C5 ----
SectionCase ==
  pc = "done" /\ fmt = "latex" /\ tree.roots = <<1>> /\ tree.kind[1] = "section"
ContentChildrenInOrder(p) ==
  \A j, k \in DOMAIN getContentData(tree, p) :
    LET a == getContentData(tree, p)[j]
        b == getContentData(tree, p)[k]
    IN (j < k /\ spans[a] # NoSpan /\ spans[b] # NoSpan) => spans[a].end <= spans[b].start

\* C5 (as stated): for a section tree of text/ref leaves, the section span is
\* [0, content.length); every descendant has a non-empty span whose text is
\* its LaTeX rendering; content children are left to right.
C5_Original ==
  SectionCase =>
    /\ spans[1].start = 0 /\ spans[1].end = Len(content)
    /\ \A d \in Reach(tree) \ {1} :
         spans[d] # NoSpan /\ spans[d].end > spans[d].start
         /\ SpanText(d) = getNodeContent(fmt, tree, d, post)
    /\ \A p \in Reach(tree) : ContentChildrenInOrder(p)

\* C5 (amended): as C5, for every descendant whose LaTeX rendering is
\* non-empty; a descendant with an empty rendering has no span.
C5_SectionTrees ==
  SectionCase =>
    /\ spans[1].start = 0 /\ spans[1].end = Len(content)
    /\ \A d \in Reach(tree) \ {1} :
         IF Len(getNodeContent(fmt, tree, d, post)) > 0
         THEN spans[d] # NoSpan /\ spans[d].end > spans[d].start
              /\ SpanText(d) = getNodeContent(fmt, tree, d, post)
         ELSE spans[d] = NoSpan
    /\ \A p \in Reach(tree) : ContentChildrenInOrder(p)

\* a nested subsection whose title and content leaves are all mapped
C5_Witness ==
  /\ SectionCase
  /\ tree.ch[1] = <<2, 3, 4>>
  /\ \A d \in {2, 3, 4, 5, 6} : spans[d] # NoSpan

\* ---- C6 ----
\* C6: during the tracked pass the span map holds exactly the top-level nodes
\* already rendered (nested renders record nothing), and the cursor equals
\* the length of the output so far (so finally content.length).
C6_TrackerScoping ==
  /\ pc = "render" => Mapped = {tree.roots[k] : k \in 1..(i - 1)}
  /\ cursor = Len(content)

\* a top-level container with children rendered, before reconciliation
C6_Witness ==
  /\ pc = "render" /\ i > Len(tree.roots)
  /\ \E k \in DOMAIN tree.roots : hasChildren(tree, tree.roots[k])
  /\ Len(content) > 0

\* ---- C7 ----
\* search cursor of findMissingChildSpans when it reaches child k of p
CursorAt(p, k) ==
  LET prev == {j \in 1..(k - 1) : spans[tree.ch[p][j]] # NoSpan}
  IN IF prev = {} THEN 0
     ELSE spans[tree.ch[p][CHOOSE j \in prev : \A l \in prev : l <= j]].end - spans[p].start

Unlocatable(p, k) ==
  LET c == tree.ch[p][k]
      pt == SpanText(p)
      out == getNodeContent(fmt, tree, c, post)
      cp == getCopyContent(tree, c)
  IN \/ Len(out) = 0
     \/ (IndexOf(pt, out, CursorAt(p, k)) < 0 /\ (Len(cp) = 0 \/ IndexOf(pt, cp, CursorAt(p, k)) < 0))

\* C7: after reconciliation, a child of a mapped parent is unmapped exactly
\* when its rendering is empty or neither its rendering nor its copy text
\* occurs in the parent's span from the cursor on; later siblings are still
\* searched and mapped.
C7_SilentMiss ==
  pc = "done" =>
    \A p \in Reach(tree) : spans[p] # NoSpan =>
      \A k \in DOMAIN tree.ch[p] : (spans[tree.ch[p][k]] = NoSpan) <=> Unlocatable(p, k)

\* an unmapped child followed by a mapped sibling
C7_Witness ==
  /\ pc = "done"
  /\ \E p \in Reach(tree) : \E j, k \in DOMAIN tree.ch[p] :
       j < k /\ spans[tree.ch[p][j]] = NoSpan /\ spans[tree.ch[p][k]] # NoSpan

\* ==================================================================
\* SpanMatcher
\* ==================================================================
\* A span map is the sequence of Map entries [nodeId, start, end, type] in
\* insertion order (node ids distinct).

SpanStart(e) == e.start
SpanWidth(e) == e.end - e.start
\* comparator keys: a.span.start - b.span.start, or span width
SortKey(e, k) == IF k = "start" THEN SpanStart(e) ELSE SpanWidth(e)

\* JS Array.prototype.sort with comparator key(a) - key(b): stable
RECURSIVE InsertByKey(_, _, _)
InsertByKey(x, sq, k) ==
  IF sq = <<>> THEN <<x>>
  ELSE IF SortKey(Head(sq), k) <= SortKey(x, k) THEN <<Head(sq)>> \o InsertByKey(x, Tail(sq), k)
       ELSE <<x>> \o sq
RECURSIVE StableSort(_, _)
StableSort(sq, k) ==
  IF sq = <<>> THEN <<>>
  ELSE LET n == Len(sq) IN InsertByKey(sq[n], StableSort(SubSeq(sq, 1, n - 1), k), k)

\* SpanMatcher constructor: sortedSpans
SortSpans(entries) == StableSort(entries, "start")

\* findNodeAtPosition result for null
NullSpan == [nodeId |-> 0, start |-> -1, end |-> -1, type |-> "none"]

\* mutant: a position equal to span.end counts as inside
ContainsPosClosed(e, pos) == pos >= e.start /\ pos <= e.end

\* pos >= span.start && pos < span.end
ContainsPos(e, pos) == pos >= e.start /\ pos < e.end

RECURSIVE FindNodeLoop(_, _, _)
FindNodeLoop(sq, pos, best) ==
  IF sq = <<>> THEN best
  ELSE LET e == Head(sq)
           better == ContainsPos(e, pos) /\ (best = NullSpan \/ SpanWidth(e) < SpanWidth(best))
       IN FindNodeLoop(Tail(sq), pos, IF better THEN e ELSE best)

RECURSIVE FindNodeLoopLastTie(_, _, _)
FindNodeLoopLastTie(sq, pos, best) ==
  IF sq = <<>> THEN best
  ELSE LET e == Head(sq)
           better == ContainsPos(e, pos) /\ (best = NullSpan \/ SpanWidth(e) <= SpanWidth(best))
       IN FindNodeLoopLastTie(Tail(sq), pos, IF better THEN e ELSE best)

\* mutant: a later span of equal width replaces the current best
findNodeAtPositionLastTie(sorted, pos) == FindNodeLoopLastTie(sorted, pos, NullSpan)

\* SpanMatcher.findNodeAtPosition
findNodeAtPosition(sorted, pos) == FindNodeLoop(sorted, pos, NullSpan)

\* SpanMatcher.findAllNodesAtPosition
findAllNodesAtPosition(sorted, pos) ==
  StableSort(SelectSeq(sorted, LAMBDA e : ContainsPos(e, pos)), "width")

\* offset left undefined
NoOffset == -1

\* span.start < end && span.end > start
Overlaps(e, start, end) == e.start < end /\ e.end > start

\* mutant: a range ending exactly at span.end does not count as ending inside
ClassifyStrictEnd(e, start, end) ==
  LET containsStart == start >= e.start /\ start < e.end
      containsEnd == end > e.start /\ end < e.end
  IN IF containsStart /\ containsEnd THEN [matchType |-> "single", offset |-> start - e.start]
     ELSE IF containsStart THEN [matchType |-> "start", offset |-> start - e.start]
     ELSE IF containsEnd THEN [matchType |-> "end", offset |-> end - e.start]
     ELSE [matchType |-> "contains", offset |-> NoOffset]

\* the matchType / offset decision of findNodesForRange
Classify(e, start, end) ==
  LET containsStart == start >= e.start /\ start < e.end
      containsEnd == end > e.start /\ end <= e.end
  IN IF containsStart /\ containsEnd THEN [matchType |-> "single", offset |-> start - e.start]
     ELSE IF containsStart THEN [matchType |-> "start", offset |-> start - e.start]
     ELSE IF containsEnd THEN [matchType |-> "end", offset |-> end - e.start]
     ELSE [matchType |-> "contains", offset |-> NoOffset]

RECURSIVE RowsOf(_, _, _)
RowsOf(sq, start, end) ==
  IF sq = <<>> THEN <<>>
  ELSE LET e == Head(sq)
           c == Classify(e, start, end)
       IN <<[nodeId |-> e.nodeId, nodeType |-> e.type, matchType |-> c.matchType, offset |-> c.offset]>>
          \o RowsOf(Tail(sq), start, end)

\* SpanMatcher.findNodesForRange
findNodesForRange(sorted, start, end) ==
  RowsOf(StableSort(SelectSeq(sorted, LAMBDA e : Overlaps(e, start, end)), "width"), start, end)

\* ---- inputs ----
MaxTextLen == 3
MaxSpans == 2
MatchAlphabet == {"a", "b"}
HelloWorld == <<"H", "e", "l", "l", "o", " ", "W", "o", "r", "l", "d">>
LoWo == <<"l", "o", " ", "W", "o">>

SeqsUpTo(A, n) == UNION {[1..k -> A] : k \in 0..n}

MatchTexts == [1..MaxTextLen -> MatchAlphabet]

\* span maps over a text of length len: node ids 1..k in insertion order
SpanMaps(len) ==
  UNION {{[j \in 1..k |-> [nodeId |-> j, start |-> iv[j][1], end |-> iv[j][2], type |-> "text"]]
          : iv \in [1..k -> {pr \in (0..len) \X (0..len) : pr[1] <= pr[2]}]}
         : k \in 0..MaxSpans}

HelloWorldSpans ==
  <<[nodeId |-> 1, start |-> 0, end |-> 6, type |-> "text"],
    [nodeId |-> 2, start |-> 6, end |-> 11, type |-> "text"]>>

MatcherConfigs ==
  {[text |-> tx, spans |-> sp] : tx \in MatchTexts, sp \in SpanMaps(MaxTextLen)}
  \cup {[text |-> HelloWorld, spans |-> HelloWorldSpans]}

Excerpts(tx) == SeqsUpTo(MatchAlphabet, 2) \cup (IF tx = HelloWorld THEN {LoWo} ELSE {})


\* no export in progress
RIdle ==
  /\ tree = Tree(<<>>, <<>>, <<>>, <<>>, <<>>, <<>>)
  /\ fmt = "latex" /\ post = "none" /\ pc = "done" /\ i = 1 /\ content = <<>>
  /\ spans = [n \in Ids |-> NoSpan] /\ cursor = 0

MInit ==
  /\ RIdle
  /\ \E cfg \in MatcherConfigs :
       /\ mtext = cfg.text
       /\ mspans = cfg.spans
       /\ msorted = SortSpans(cfg.spans)
  /\ mpc = "idle"
  /\ mquery = [op |-> "none", pos |-> 0, excerpt |-> <<>>, findAll |-> FALSE]
  /\ mss = 0
  /\ mres = <<>>
  /\ NIdle
  /\ FIdle
  /\ XIdle
  /\ GIdle

FindNodeAtPosition ==
  /\ mpc = "idle"
  /\ \E pos \in -1..(Len(mtext) + 1) :
       /\ mquery' = [op |-> "point", pos |-> pos, excerpt |-> <<>>, findAll |-> FALSE]
       /\ mres' = <<findNodeAtPosition(msorted, pos)>>
  /\ mpc' = "done"
  /\ UNCHANGED <<mtext, mspans, msorted, mss>>
  /\ UNCHANGED vars
  /\ UNCHANGED nvars
  /\ UNCHANGED fvars
  /\ UNCHANGED xvars
  /\ UNCHANGED gvars

FindAllNodesAtPosition ==
  /\ mpc = "idle"
  /\ \E pos \in -1..(Len(mtext) + 1) :
       /\ mquery' = [op |-> "all", pos |-> pos, excerpt |-> <<>>, findAll |-> FALSE]
       /\ mres' = findAllNodesAtPosition(msorted, pos)
  /\ mpc' = "done"
  /\ UNCHANGED <<mtext, mspans, msorted, mss>>
  /\ UNCHANGED vars
  /\ UNCHANGED nvars
  /\ UNCHANGED fvars
  /\ UNCHANGED xvars
  /\ UNCHANGED gvars

\* matchExcerpt(excerpt, { findAll }) without a normalizer: entry
MatchExcerpt ==
  /\ mpc = "idle"
  /\ \E ex \in Excerpts(mtext), fAll \in BOOLEAN :
       mquery' = [op |-> "match", pos |-> 0, excerpt |-> ex, findAll |-> fAll]
  /\ mpc' = "loop"
  /\ mss' = 0
  /\ mres' = <<>>
  /\ UNCHANGED <<mtext, mspans, msorted>>
  /\ UNCHANGED vars
  /\ UNCHANGED nvars
  /\ UNCHANGED fvars
  /\ UNCHANGED xvars
  /\ UNCHANGED gvars

\* one iteration of the while (true) loop of matchExcerpt
MatchStep ==
  /\ mpc = "loop"
  /\ LET matchIndex == IndexOf(mtext, mquery.excerpt, mss)
     IN IF matchIndex = -1
        THEN /\ mpc' = "done"
             /\ UNCHANGED <<mss, mres>>
        ELSE /\ mres' = mres \o findNodesForRange(msorted, matchIndex, matchIndex + Len(mquery.excerpt))
             /\ IF mquery.findAll
                THEN /\ mss' = matchIndex + 1
                     /\ mpc' = "loop"
                ELSE /\ mpc' = "done"
                     /\ mss' = mss
  /\ UNCHANGED <<mtext, mspans, msorted, mquery>>
  /\ UNCHANGED vars
  /\ UNCHANGED nvars
  /\ UNCHANGED fvars
  /\ UNCHANGED xvars
  /\ UNCHANGED gvars

MNext == FindNodeAtPosition \/ FindAllNodesAtPosition \/ MatchExcerpt \/ MatchStep

MatcherSpec == MInit /\ [][MNext]_mvars

\* the loop runs whenever it can
MatcherFairSpec == MatcherSpec /\ WF_mvars(MatchStep)

\* ---- C8 ----
\* spans of the matcher containing pos, half-open
SpansAt(pos) == {x \in Range(mspans) : x.start <= pos /\ pos < x.end}
IsSortedByWidth(sq) == \A j, k \in DOMAIN sq : j < k => sq[j].end - sq[j].start <= sq[k].end - sq[k].start

\* C8: findNodeAtPosition(pos) returns a span containing pos ([start, end))
\* of minimal width, or null when none contains pos; findAllNodesAtPosition
\* returns exactly the spans containing pos, sorted by non-decreasing width.
C8_PointQueries ==
  /\ (mpc = "done" /\ mquery.op = "point") =>
       IF SpansAt(mquery.pos) = {} THEN mres[1] = NullSpan
       ELSE /\ mres[1] \in SpansAt(mquery.pos)
            /\ \A x \in SpansAt(mquery.pos) : SpanWidth(mres[1]) <= SpanWidth(x)
  /\ (mpc = "done" /\ mquery.op = "all") =>
       /\ Range(mres) = SpansAt(mquery.pos)
       /\ Len(mres) = Cardinality(SpansAt(mquery.pos))
       /\ IsSortedByWidth(mres)

\* a point query inside two nested spans of different widths
C8_Witness ==
  /\ mpc = "done" /\ mquery.op = "point"
  /\ \E x, y \in SpansAt(mquery.pos) : SpanWidth(x) < SpanWidth(y)

\* ---- C9 ----
\* occurrence of the excerpt at 0-based index m of the matcher text
Occurs(ex, m) == m + Len(ex) <= Len(mtext) /\ SubSeq(mtext, m + 1, m + Len(ex)) = ex
Occurrences(ex) == {m \in 0..Len(mtext) : Occurs(ex, m)}
FirstOcc(ex) == CHOOSE m \in Occurrences(ex) : \A l \in Occurrences(ex) : m <= l
SpanOf(id) == CHOOSE x \in Range(mspans) : x.nodeId = id

\* classification of span x against the range [s, e) (x overlaps it)
RowOk(r, x, s, e) ==
  /\ r.nodeType = x.type
  /\ CASE x.start <= s /\ e <= x.end -> r.matchType = "single" /\ r.offset = s - x.start
       [] x.start <= s /\ x.end < e -> r.matchType = "start" /\ r.offset = s - x.start
       [] s < x.start /\ e <= x.end -> r.matchType = "end" /\ r.offset = e - x.start
       [] s < x.start /\ x.end < e -> r.matchType = "contains" /\ r.offset = NoOffset

\* C9: for the (first) matched range [s, e), matchExcerpt returns one row per
\* span overlapping it, by non-decreasing width, each classified single /
\* start / end / contains with its offset; for "Hello World" with spans
\* [0,6), [6,11), "lo Wo" gives start in node 1 (offset 3) and end in node 2.
C9_RangeClassification ==
  (mpc = "done" /\ mquery.op = "match" /\ ~mquery.findAll /\ Occurrences(mquery.excerpt) # {}) =>
    LET s == FirstOcc(mquery.excerpt)
        e == s + Len(mquery.excerpt)
        Ov == {x \in Range(mspans) : x.start < e /\ x.end > s}
    IN /\ {r.nodeId : r \in Range(mres)} = {x.nodeId : x \in Ov}
       /\ Len(mres) = Cardinality(Ov)
       /\ \A j, k \in DOMAIN mres : j < k => SpanWidth(SpanOf(mres[j].nodeId)) <= SpanWidth(SpanOf(mres[k].nodeId))
       /\ \A r \in Range(mres) : RowOk(r, SpanOf(r.nodeId), s, e)
       /\ (mtext = HelloWorld /\ mquery.excerpt = LoWo) =>
            Range(mres) = {[nodeId |-> 1, nodeType |-> "text", matchType |-> "start", offset |-> 3],
                           [nodeId |-> 2, nodeType |-> "text", matchType |-> "end", offset |-> 2]}

\* the Hello World example, matched across the two node spans
C9_Witness ==
  /\ mpc = "done" /\ mquery.op = "match" /\ mtext = HelloWorld /\ mquery.excerpt = LoWo
  /\ Len(mres) = 2

\* ---- C10 ----
RECURSIVE AllRowsFrom(_, _)
AllRowsFrom(ex, m) ==
  IF m > Len(mtext) THEN <<>>
  ELSE (IF Occurs(ex, m) THEN findNodesForRange(msorted, m, m + Len(ex)) ELSE <<>>) \o AllRowsFrom(ex, m + 1)

ExpectedRows(q) ==
  IF q.findAll THEN AllRowsFrom(q.excerpt, 0)
  ELSE IF Occurrences(q.excerpt) = {} THEN <<>>
  ELSE findNodesForRange(msorted, FirstOcc(q.excerpt), FirstOcc(q.excerpt) + Len(q.excerpt))

\* C10: a running matchExcerpt returns: the rows of the first occurrence
\* (findAll false), the rows of every occurrence in increasing position,
\* overlapping ones included (findAll true), [] when there is none.
C10_Original == (mpc = "loop") ~> (mpc = "done" /\ mres = ExpectedRows(mquery))

\* ==================================================================
\* Normalizers: LatexNormalizer (createLatexNormalizer), MarkdownNormalizer
\* (createMarkdownNormalizer) and the shared normalizeWhitespace,
\* applyRemovals, applyReplacements.
\* ==================================================================

\* s has the literal lit at 0-based offset p
HasAt(s, p, lit) == p >= 0 /\ p + Len(lit) <= Len(s) /\ SubSeq(s, p + 1, p + Len(lit)) = lit

\* character at 0-based offset p
CharAt(s, p) == s[p + 1]

RECURSIVE WsRun(_, _)
\* length of the run of \s characters starting at p
WsRun(s, p) == IF p < Len(s) /\ IsWs(CharAt(s, p)) THEN 1 + WsRun(s, p + 1) ELSE 0

RECURSIVE NonWsRun(_, _)
\* length of the run of \S characters starting at p
NonWsRun(s, p) == IF p < Len(s) /\ ~IsWs(CharAt(s, p)) THEN 1 + NonWsRun(s, p + 1) ELSE 0

LabelOpen == <<"\\", "l", "a", "b", "e", "l", "{">>
HtmlOpen == <<"<", "!", "-", "-">>
HtmlClose == <<"-", "-", ">">>
DollarDollar == <<"$", "$">>

\* length of a match from p whose closing literal of length cl is at q (-1: none)
MatchTo(p, q, cl) == IF q = -1 THEN 0 ELSE q + cl - p

\* /\\label\{[^}]*\}/ : length of the match at p, 0 if none
LabelMatchAt(s, p) ==
  IF HasAt(s, p, LabelOpen) THEN MatchTo(p, IndexOf(s, <<"}">>, p + Len(LabelOpen)), 1) ELSE 0

\* end of the line holding offset q's newline search (-1: end of text)
LineEndFrom(s, q) == IF q = -1 THEN Len(s) ELSE q

\* /(?<!\\)%[^\n]*/ : length of the match at p, 0 if none
CommentMatchAt(s, p) ==
  IF p < Len(s) /\ CharAt(s, p) = "%" /\ (p = 0 \/ CharAt(s, p - 1) # "\\")
  THEN LineEndFrom(s, IndexOf(s, <<"\n">>, p)) - p
  ELSE 0

\* /<!--[\s\S]*?-->/ : length of the match at p, 0 if none
HtmlCommentAt(s, p) ==
  IF HasAt(s, p, HtmlOpen) THEN MatchTo(p, IndexOf(s, HtmlClose, p + Len(HtmlOpen)), Len(HtmlClose)) ELSE 0

\* the multiline $ assertion at offset p
LineEndAt(s, p) == p = Len(s) \/ CharAt(s, p) = "\n"

\* $ right after the url
RefDefNoTitle(s, p, e1) == IF LineEndAt(s, e1) THEN e1 - p ELSE 0

\* the title closed by the quote at qc, else the match without a title
RefDefQuote(s, p, e1, qc) ==
  IF qc # -1 /\ LineEndAt(s, qc + 1) THEN qc + 1 - p ELSE RefDefNoTitle(s, p, e1)

\* (?:\s+"[^"]*")?$ after the url ending at e1, g the end of the whitespace after it
RefDefTitle(s, p, e1, g) ==
  IF g > e1 /\ g < Len(s) /\ CharAt(s, g) = "\"" THEN RefDefQuote(s, p, e1, IndexOf(s, <<"\"">>, g + 1))
  ELSE RefDefNoTitle(s, p, e1)

\* \S+ of length n from l
RefDefUrlEnd(s, p, l, n) == IF n = 0 THEN 0 ELSE RefDefTitle(s, p, l + n, l + n + WsRun(s, l + n))

\* \s+ of length w from c, then \S+
RefDefUrl(s, p, c, w) == IF w = 0 THEN 0 ELSE RefDefUrlEnd(s, p, c + w, NonWsRun(s, c + w))

\* [^\]]+ up to the ] at k, then :
RefDefClose(s, p, j, k) ==
  IF k = -1 \/ k = j + 1 \/ ~HasAt(s, k + 1, <<":">>) THEN 0 ELSE RefDefUrl(s, p, k + 2, WsRun(s, k + 2))

\* [ at j after the leading whitespace
RefDefBracket(s, p, j) ==
  IF j < Len(s) /\ CharAt(s, j) = "[" THEN RefDefClose(s, p, j, IndexOf(s, <<"]">>, j + 1)) ELSE 0

\* /^\s*\[[^\]]+\]:\s+\S+(?:\s+"[^"]*")?$/m : length of the match at p, 0
\* if none (every quantifier is forced by the literal after it, so the match
\* is found without backtracking)
RefDefAt(s, p) ==
  IF p < Len(s) /\ (p = 0 \/ CharAt(s, p - 1) = "\n") THEN RefDefBracket(s, p, p + WsRun(s, p)) ELSE 0

\* length of the match of pattern pat at p, 0 if none
MatchLenAt(s, pat, p) ==
  CASE pat = "label" -> LabelMatchAt(s, p)
    [] pat = "comment" -> CommentMatchAt(s, p)
    [] pat = "html" -> HtmlCommentAt(s, p)
    [] pat = "refdef" -> RefDefAt(s, p)

RECURSIVE ExecAll(_, _, _), ExecAllAt(_, _, _, _)
\* the while ((match = pattern.exec(text)) !== null) loop of a /g pattern
\* (no pattern matches the empty string)
ExecAll(s, pat, p) == IF p >= Len(s) THEN <<>> ELSE ExecAllAt(s, pat, p, MatchLenAt(s, pat, p))

\* one exec step: a match of length l at p (0: none), then the search goes on
ExecAllAt(s, pat, p, l) ==
  (IF l > 0 THEN <<[start |-> p, length |-> l]>> ELSE <<>>) \o ExecAll(s, pat, IF l > 0 THEN p + l ELSE p + 1)

RECURSIVE CollectRemovals(_, _)
CollectRemovals(s, pats) ==
  IF pats = <<>> THEN <<>> ELSE ExecAll(s, Head(pats), 0) \o CollectRemovals(s, Tail(pats))

RECURSIVE RemovalLoop(_, _, _, _, _, _)
\* while (origIndex < text.length) of applyRemovals
RemovalLoop(text, rem, origIndex, ri, out, pm) ==
  IF origIndex >= Len(text) THEN [text |-> out, posMap |-> pm]
  ELSE LET skip == ri <= Len(rem) /\ origIndex = rem[ri].start
       IN RemovalLoop(text, rem,
                      IF skip THEN origIndex + rem[ri].length ELSE origIndex + 1,
                      IF skip THEN ri + 1 ELSE ri,
                      IF skip THEN out ELSE Append(out, CharAt(text, origIndex)),
                      IF skip THEN pm ELSE Append(pm, origIndex))

\* applyRemovals: matches of every pattern, sorted by start, then skipped
applyRemovals(text, pats) ==
  RemovalLoop(text, StableSort(CollectRemovals(text, pats), "start"), 0, 1, <<>>, <<>>)

RECURSIVE ReplaceDisplayMathFrom(_, _), ReplaceDisplayMathAt(_, _, _)
\* text.replace(/\$\$([\s\S]*?)\$\$/g, '\\[$1\\]') from offset p
ReplaceDisplayMathFrom(s, p) ==
  IF p >= Len(s) THEN <<>> ELSE ReplaceDisplayMathAt(s, p, IF HasAt(s, p, DollarDollar) THEN IndexOf(s, DollarDollar, p + 2) ELSE -1)

\* a match from p to the closing $$ at q (-1: no match at p)
ReplaceDisplayMathAt(s, p, q) ==
  (IF q # -1 THEN <<"\\", "[">> \o SubSeq(s, p + 3, q) \o <<"\\", "]">> ELSE <<CharAt(s, p)>>)
  \o ReplaceDisplayMathFrom(s, IF q # -1 THEN q + 2 ELSE p + 1)

\* mutant: the replacement drops the backslashes ('[$1]'), changing the length
ReplaceWithShort(s, pat) == SelectSeq(ReplaceDisplayMathFrom(s, 0), LAMBDA c : c # "\\")

ReplaceWith(s, pat) == CASE pat = "displaymath" -> ReplaceDisplayMathFrom(s, 0)

RECURSIVE RebuildLoop(_, _, _, _, _, _)
\* while (normIdx < currentText.length && origIdx < currentPosMap.length)
RebuildLoop(cur, prev, pm, origIdx, normIdx, out) ==
  IF normIdx < Len(cur) /\ origIdx < Len(pm)
  THEN LET same == CharAt(cur, normIdx) = CharAt(prev, origIdx)
       IN RebuildLoop(cur, prev, pm, IF same THEN origIdx + 1 ELSE origIdx, normIdx + 1,
                      Append(out, IF same THEN pm[origIdx + 1]
                                  ELSE pm[(IF origIdx < Len(pm) - 1 THEN origIdx ELSE Len(pm) - 1) + 1]))
  ELSE \* while (normIdx < currentText.length): currentPosMap[last] ?? 0
       out \o [k \in 1..(Len(cur) - normIdx) |-> IF pm = <<>> THEN 0 ELSE pm[Len(pm)]]

RECURSIVE ReplaceLoop(_, _, _), ReplaceLoopStep(_, _, _, _)
ReplaceLoop(text, pm, pats) ==
  IF pats = <<>> THEN [text |-> text, posMap |-> pm]
  ELSE ReplaceLoopStep(text, pm, pats, ReplaceWith(text, Head(pats)))

\* one pattern: currentText replaced into cur, the posMap rebuilt if the length changed
ReplaceLoopStep(text, pm, pats, cur) ==
  ReplaceLoop(cur, IF Len(cur) # Len(text) THEN RebuildLoop(cur, text, pm, 0, 0, <<>>) ELSE pm, Tail(pats))

\* applyReplacements
applyReplacements(text, pm, pats) == ReplaceLoop(text, pm, pats)

RECURSIVE WsLoop(_, _, _, _, _, _)
\* while (i < text.length) of normalizeWhitespace
WsLoop(text, pm, stripAll, ix, lastWasSpace, acc) ==
  IF ix >= Len(text) \/ Len(acc.posMap) > ix THEN acc
  ELSE LET ws == IsWs(CharAt(text, ix))
           push == ~ws \/ ~(stripAll \/ lastWasSpace)
       IN WsLoop(text, pm, stripAll, ix + 1, IF ws THEN lastWasSpace \/ ~stripAll ELSE FALSE,
                 IF push
                 THEN [normalized |-> Append(acc.normalized, IF ws THEN " " ELSE CharAt(text, ix)),
                       posMap |-> Append(acc.posMap, pm[ix + 1])]
                 ELSE acc)

\* mutant: the input posMap is returned unchanged
normalizeWhitespaceMapAll(text, pm, stripAll) == [normalized |-> WsLoop(text, pm, stripAll, 0, FALSE, [normalized |-> <<>>, posMap |-> <<>>]).normalized,
   posMap |-> pm]

\* normalizeWhitespace(text, posMap, { stripAllWhitespace })
normalizeWhitespace(text, pm, stripAll) ==
  WsLoop(text, pm, stripAll, 0, FALSE, [normalized |-> <<>>, posMap |-> <<>>])

\* STRIP_PATTERNS and NORMALIZE_PATTERNS of LatexNormalizer, STRIP_PATTERNS of
\* MarkdownNormalizer
LatexStripPatterns == <<"label", "comment">>
LatexNormalizePatterns == <<"displaymath">>
MarkdownStripPatterns == <<"html", "refdef">>

\* Step 2 of createLatexNormalizer: applyReplacements on the removal result r1
LatexAfterRemovals(r1) == applyReplacements(r1.text, r1.posMap, LatexNormalizePatterns)

\* Step 3: normalizeWhitespace on the replacement result r2
LatexWhitespace(r2, stripAll) == normalizeWhitespace(r2.text, r2.posMap, stripAll)

\* removals and replacements on the whitespace-normalized r0, mapped back
LatexWsFirstBack(r0, r2) == [normalized |-> r2.text, posMap |-> [k \in DOMAIN r2.posMap |-> r0.posMap[r2.posMap[k] + 1]]]
LatexWsFirstMap(r0) == LatexWsFirstBack(r0, LatexAfterRemovals(applyRemovals(r0.normalized, LatexStripPatterns)))

\* mutant: whitespace is normalized before the removals and replacements
LatexNormalizeWsFirst(text, stripAll) ==
  LatexWsFirstMap(normalizeWhitespace(text, [k \in 1..Len(text) |-> k - 1], stripAll))

\* createLatexNormalizer(options).normalize
LatexNormalize(text, stripAll) ==
  LatexWhitespace(LatexAfterRemovals(applyRemovals(text, LatexStripPatterns)), stripAll)

\* Step 2 of createMarkdownNormalizer: normalizeWhitespace on the removal result r1
MarkdownWhitespace(r1, stripAll) == normalizeWhitespace(r1.text, r1.posMap, stripAll)

\* createMarkdownNormalizer(options).normalize
MarkdownNormalize(text, stripAll) == MarkdownWhitespace(applyRemovals(text, MarkdownStripPatterns), stripAll)

\* the four normalizers: LatexNormalizer, createLatexNormalizer({stripAllWhitespace:
\* true}), MarkdownNormalizer, createMarkdownNormalizer({stripAllWhitespace: true})
NormalizerKinds == {"latex", "latexStrip", "markdown", "markdownStrip"}

Normalize(kind, text) ==
  IF kind \in {"latex", "latexStrip"} THEN LatexNormalize(text, kind = "latexStrip")
  ELSE MarkdownNormalize(text, kind = "markdownStrip")

\* ---- normalizer inputs (strings of the tests in SpanMatcher.test.ts) ----
TestSectionLabel == <<"\\", "s", "e", "c", "t", "i", "o", "n", "{", "I", "n", "t", "r", "o", "}", "\\", "l", "a", "b", "e", "l", "{", "s", "e", "c", ":", "i", "n", "t", "r", "o", "}", " ", "S", "o", "m", "e", " ", "t", "e", "x", "t">>
TestTwoLabels == <<"A", "\\", "l", "a", "b", "e", "l", "{", "a", "}", "B", "\\", "l", "a", "b", "e", "l", "{", "b", "}", "C">>
TestComment == <<"H", "e", "l", "l", "o", " ", "%", " ", "t", "h", "i", "s", " ", "i", "s", " ", "a", " ", "c", "o", "m", "m", "e", "n", "t", "\n", "W", "o", "r", "l", "d">>
TestEscapedPercent == <<"5", "0", "\\", "%", " ", "d", "i", "s", "c", "o", "u", "n", "t">>
TestDisplayMath == <<"$", "$", "E", "=", "m", "c", "^", "2", "$", "$">>
TestSpaces == <<"H", "e", "l", "l", "o", " ", " ", " ", " ", "W", "o", "r", "l", "d">>
TestLabelMap == <<"A", "\\", "l", "a", "b", "e", "l", "{", "x", "}", "B">>
TestSectionLabel1 == <<"\\", "s", "e", "c", "t", "i", "o", "n", "{", "I", "n", "t", "r", "o", "}", "\\", "l", "a", "b", "e", "l", "{", "s", "e", "c", ":", "1", "}", " ", "T", "e", "x", "t">>
TestIntroExcerpt == <<"I", "n", "t", "r", "o", "}", " ", "T", "e", "x", "t">>
TestHtmlComment == <<"H", "e", "l", "l", "o", " ", "<", "!", "-", "-", " ", "c", "o", "m", "m", "e", "n", "t", " ", "-", "-", ">", " ", "W", "o", "r", "l", "d">>
TestHtmlMultiline == <<"H", "e", "l", "l", "o", " ", "<", "!", "-", "-", " ", "\n", "m", "u", "l", "t", "i", "l", "i", "n", "e", "\n", "c", "o", "m", "m", "e", "n", "t", " ", "-", "-", ">", " ", "W", "o", "r", "l", "d">>
TestRefDef == <<"S", "o", "m", "e", " ", "t", "e", "x", "t", "\n", "[", "r", "e", "f", "]", ":", " ", "h", "t", "t", "p", "s", ":", "/", "/", "e", "x", "a", "m", "p", "l", "e", ".", "c", "o", "m", " ", "\"", "T", "i", "t", "l", "e", "\"", "\n", "M", "o", "r", "e", " ", "t", "e", "x", "t">>
TestNewlines == <<"H", "e", "l", "l", "o", "\n", "\n", "\n", "\n", "W", "o", "r", "l", "d">>
TestHidden == <<"H", "e", "l", "l", "o", " ", "<", "!", "-", "-", " ", "h", "i", "d", "d", "e", "n", " ", "-", "-", ">", " ", "W", "o", "r", "l", "d", " ", "i", "s", " ", "g", "r", "e", "a", "t">>
LabelA == <<"\\", "l", "a", "b", "e", "l", "{", "a", "}">>
LabelB == <<"\\", "l", "a", "b", "e", "l", "{", "b", "}">>
LabelPiece == <<"\\", "l", "a", "b", "e", "l", "{", "x", "}">>
LaPiece == <<"\\", "l", "a">>
BelPiece == <<"b", "e", "l", "{", "}">>
RefDefPiece == <<"[", "r", "]", ":", " ", "u">>
TitlePiece == <<" ", "\"", "t", "\"">>
HtmlEmpty == <<"<", "!", "-", "-", "-", "-", ">">>
HtmlHalf == <<"<", "!", "-">>

MaxPieces == 3

\* texts are concatenations of up to MaxPieces pieces
LatexPieces == {<<"a">>, <<" ">>, <<"\n">>, <<"%">>, <<"\\">>, DollarDollar, LabelPiece, LaPiece, BelPiece}
MarkdownPieces == {<<"a">>, <<" ">>, <<"\n">>, HtmlOpen, HtmlClose, HtmlEmpty, HtmlHalf, RefDefPiece, TitlePiece}

RECURSIVE Flatten(_)
Flatten(ps) == IF ps = <<>> THEN <<>> ELSE Head(ps) \o Flatten(Tail(ps))

RECURSIVE SubSeqs(_)
\* order-preserving selections of pieces
SubSeqs(ps) ==
  IF ps = <<>> THEN {<<>>}
  ELSE LET r == SubSeqs(Tail(ps)) IN r \cup {<<Head(ps)>> \o x : x \in r}

PieceSeqs(P) == SeqsUpTo(P, MaxPieces)

LatexTests == {TestSectionLabel, TestTwoLabels, TestComment, TestEscapedPercent, TestDisplayMath,
               TestSpaces, TestLabelMap, TestSectionLabel1}
MarkdownTests == {TestHtmlComment, TestHtmlMultiline, TestRefDef, TestSpaces, TestNewlines, TestHidden}

\* (normalizer, text as pieces) pairs
NormConfigs ==
  {[kind |-> k, pieces |-> ps] : k \in {"latex", "latexStrip"}, ps \in PieceSeqs(LatexPieces)}
  \cup {[kind |-> k, pieces |-> ps] : k \in {"markdown", "markdownStrip"}, ps \in PieceSeqs(MarkdownPieces)}
  \cup {[kind |-> "latex", pieces |-> <<t>>] : t \in LatexTests}
  \cup {[kind |-> "markdown", pieces |-> <<t>>] : t \in MarkdownTests}
  \cup {[kind |-> "latex", pieces |-> <<<<"%">>, LabelA, <<"\n">>, LabelB>>]}

\* excerpts: the text with some pieces left out, and the tests' excerpts
NormExcerpts(ps) ==
  {Flatten(x) : x \in SubSeqs(ps)}
  \cup (IF ps = <<TestSectionLabel1>> THEN {TestIntroExcerpt} ELSE {})
  \cup (IF ps = <<TestHidden>> THEN {HelloWorld} ELSE {})

\* ---- SpanMatcher.matchExcerpt with a normalizer (findAll false) ----
PosMapAt(pm, k) == IF 0 <= k /\ k < Len(pm) THEN Num(pm[k + 1]) ELSE Undef

\* mutant: the end is the original index of the last character
NormMatchEndInclusive(pm, m, len) == PosMapAt(pm, m + len - 1)

\* originalEnd = this.posMap[matchIndex + searchExcerpt.length - 1] + 1
NormMatchEnd(pm, m, len) ==
  LET last == PosMapAt(pm, m + len - 1) IN IF last.def THEN Num(last.v + 1) ELSE Undef

\* originalStart s and originalEnd e of the match, and findNodesForRange(s, e)
NormMatchRange(sorted, se, m, s, e) ==
  [found |-> TRUE, m |-> m, se |-> se, start |-> s, end |-> e,
   rows |-> IF s.def /\ e.def THEN findNodesForRange(sorted, s.v, e.v) ELSE <<>>]

\* the normalized excerpt se found at m (-1: not found)
NormMatchAt(pm, sorted, se, m) ==
  IF m = -1
  THEN [found |-> FALSE, m |-> -1, se |-> se, start |-> Undef, end |-> Undef, rows |-> <<>>]
  ELSE NormMatchRange(sorted, se, m, PosMapAt(pm, m), NormMatchEnd(pm, m, Len(se)))

\* searchExcerpt se searched from 0 in the normalized text
NormMatchSearch(normText, pm, sorted, se) == NormMatchAt(pm, sorted, se, IndexOf(normText, se, 0))

\* matchExcerpt(excerpt) of a SpanMatcher built with a normalizer: the
\* excerpt is normalized, searched from 0 in the cached normalized text and
\* mapped back through the cached posMap
NormMatchExcerpt(kind, normText, pm, sorted, excerpt) ==
  NormMatchSearch(normText, pm, sorted, Normalize(kind, excerpt).normalized)

\* the spans Map of the normalized-matching tests of SpanMatcher.test.ts (node-1 is
\* id 1), and one node spanning the whole text for the other texts
NormSpans(text) ==
  CASE text = TestSectionLabel1 -> <<[nodeId |-> 1, start |-> 0, end |-> 30, type |-> "section"]>>
    [] text = TestHidden -> <<[nodeId |-> 1, start |-> 0, end |-> 50, type |-> "section"]>>
    [] OTHER -> <<[nodeId |-> 1, start |-> 0, end |-> Len(text), type |-> "text"]>>


NInit ==
  /\ RIdle
  /\ MIdle
  /\ FIdle
  /\ XIdle
  /\ GIdle
  /\ \E cfg \in NormConfigs :
       /\ npieces = cfg.pieces
       /\ ntext = Flatten(cfg.pieces)
       /\ nkind = cfg.kind
  /\ npc = "text"
  /\ nres = NoNorm
  /\ nagain = NoNorm
  /\ nexcerpt = <<>>
  /\ nmatch = NoMatch

\* normalizer.normalize(text), as run by new SpanMatcher(spans, text, normalizer)
NormalizeText ==
  /\ npc = "text"
  /\ nres' = Normalize(nkind, ntext)
  /\ npc' = "ready"
  /\ UNCHANGED <<npieces, ntext, nkind, nagain, nexcerpt, nmatch>>
  /\ UNCHANGED vars
  /\ UNCHANGED mvars
  /\ UNCHANGED fvars
  /\ UNCHANGED xvars
  /\ UNCHANGED gvars

\* normalizer.normalize applied to its own output
NormalizeAgain ==
  /\ npc = "ready"
  /\ nagain' = Normalize(nkind, nres.normalized)
  /\ npc' = "again"
  /\ UNCHANGED <<npieces, ntext, nkind, nres, nexcerpt, nmatch>>
  /\ UNCHANGED vars
  /\ UNCHANGED mvars
  /\ UNCHANGED fvars
  /\ UNCHANGED xvars
  /\ UNCHANGED gvars

\* matcher.matchExcerpt(excerpt) on the normalized text
MatchNormalized ==
  /\ npc = "ready"
  /\ \E ex \in NormExcerpts(npieces) :
       /\ nexcerpt' = ex
       /\ nmatch' = NormMatchExcerpt(nkind, nres.normalized, nres.posMap, SortSpans(NormSpans(ntext)), ex)
  /\ npc' = "matched"
  /\ UNCHANGED <<npieces, ntext, nkind, nres, nagain>>
  /\ UNCHANGED vars
  /\ UNCHANGED mvars
  /\ UNCHANGED fvars
  /\ UNCHANGED xvars
  /\ UNCHANGED gvars

NNext == NormalizeText \/ NormalizeAgain \/ MatchNormalized

NormSpec == NInit /\ [][NNext]_nvars

\* ---- C11 ----
LatexKinds == {"latex", "latexStrip"}
MarkdownKinds == {"markdown", "markdownStrip"}
Normalized == npc \in {"ready", "again", "matched"}

\* C11 (as stated): when the normalized excerpt is found at m, the original
\* range [posMap[m], posMap[m+len-1]+1) lies within [0, fullText.length]
\* and start < end.
C11_Original ==
  npc = "matched" /\ nmatch.found =>
    /\ nmatch.start.def /\ nmatch.end.def
    /\ 0 <= nmatch.start.v /\ nmatch.start.v < nmatch.end.v /\ nmatch.end.v <= Len(ntext)

\* C11 (corrected): when the normalized excerpt is non-empty and found at m,
\* the original range lies within [0, fullText.length], start < end, it
\* covers the original index of every matched normalized character (so the
\* stripped text in between is inside it), and the node spanning the text
\* is reported.
C11_NormalizedRange ==
  npc = "matched" /\ nmatch.found /\ Len(nmatch.se) > 0 =>
    /\ nmatch.start.def /\ nmatch.end.def
    /\ 0 <= nmatch.start.v /\ nmatch.start.v < nmatch.end.v /\ nmatch.end.v <= Len(ntext)
    /\ \A k \in nmatch.m..(nmatch.m + Len(nmatch.se) - 1) :
         nmatch.start.v <= nres.posMap[k + 1] /\ nres.posMap[k + 1] < nmatch.end.v
    /\ nmatch.rows # <<>>

\* a match whose original range is longer than the normalized excerpt
C11_Witness ==
  /\ npc = "matched" /\ nmatch.found /\ Len(nmatch.se) > 0
  /\ nmatch.end.v - nmatch.start.v > Len(nmatch.se)
  /\ nkind = "latex"

\* ---- C12 ----
PosMapOk(r, text) ==
  /\ Len(r.posMap) = Len(r.normalized)
  /\ \A j, k \in DOMAIN r.posMap : j < k => r.posMap[j] <= r.posMap[k]
  /\ \A k \in DOMAIN r.posMap : 0 <= r.posMap[k] /\ r.posMap[k] < Len(text)

\* C12: every normalizer returns a posMap as long as the normalized text,
\* non-decreasing, with every entry a valid index of its input.
C12_PosMapInvariant ==
  /\ Normalized => PosMapOk(nres, ntext)
  /\ npc = "again" => PosMapOk(nagain, nres.normalized)

\* a normalization that removed and collapsed characters
C12_Witness ==
  /\ npc = "ready"
  /\ Len(nres.normalized) > 1
  /\ \E k \in DOMAIN nres.posMap : nres.posMap[k] # k - 1
  /\ Len(nres.normalized) < Len(ntext) - 1

\* ---- C13 ----
\* the character of the input text at posMap[k]
OriginOf(k) == ntext[nres.posMap[k] + 1]

\* C13: every normalized character equals the character at its posMap
\* index, or is the space a whitespace run collapsed to, or (LatexNormalizer)
\* a \[ \] delimiter put in place of a $; posMap is strictly increasing, so
\* every other character maps to its own original index.
C13_Origins ==
  Normalized =>
    /\ \A k \in DOMAIN nres.normalized :
         \/ nres.normalized[k] = OriginOf(k)
         \/ nres.normalized[k] = " " /\ IsWs(OriginOf(k))
         \/ nkind \in LatexKinds /\ nres.normalized[k] \in {"\\", "[", "]"} /\ OriginOf(k) = "$"
    /\ \A j, k \in DOMAIN nres.posMap : j < k => nres.posMap[j] < nres.posMap[k]

\* a display-math block with content inside and text after it
C13_Witness ==
  /\ npc = "ready" /\ nkind \in LatexKinds
  /\ \E j, k \in DOMAIN nres.normalized :
       /\ j < k
       /\ nres.normalized[j] = "[" /\ OriginOf(j) = "$"
       /\ nres.normalized[k] = OriginOf(k) /\ nres.normalized[k] \notin {"\\", "[", "]", " "}

\* ---- C14 ----
\* the original offsets of the normalized characters
Kept == Range(nres.posMap)
\* the characters of a regex match [start, start+length)
MatchPositions(r) == r.start..(r.start + r.length - 1)

\* C14 (as stated): LatexNormalizer removes every \label{...} command, each
\* retained character maps to its exact original index, and the tests'
\* "A\label{x}B" -> "AB" with posMap [0,10], "A\label{a}B\label{b}C" -> "ABC".
C14_Original ==
  Normalized /\ nkind \in LatexKinds =>
    /\ \A r \in Range(ExecAll(ntext, "label", 0)) : MatchPositions(r) \cap Kept = {}
    /\ \A k \in DOMAIN nres.normalized :
         nres.normalized[k] = OriginOf(k) \/ IsWs(OriginOf(k)) \/ OriginOf(k) = "$"
    /\ ntext = TestLabelMap => nres.normalized = <<"A", "B">> /\ nres.posMap = <<0, 10>>
    /\ ntext = TestTwoLabels => nres.normalized = <<"A", "B", "C">>

\* ---- C15 ----
\* C15 (as stated): the tests expect "Hello % this is a comment\nWorld" to
\* normalize to exactly "Hello \nWorld" and "50\% discount" to stay unchanged.
C15_Original ==
  Normalized /\ nkind = "latex" =>
    /\ ntext = TestComment => nres.normalized = <<"H", "e", "l", "l", "o", " ", "\n", "W", "o", "r", "l", "d">>
    /\ ntext = TestEscapedPercent => nres.normalized = TestEscapedPercent

\* ---- C16 ----
\* C16 (as stated): MarkdownNormalizer turns "Hello\n\n\n\nWorld" into
\* "Hello\n\nWorld", keeping the paragraph break.
C16_Original ==
  Normalized /\ nkind = "markdown" /\ ntext = TestNewlines =>
    nres.normalized = <<"H", "e", "l", "l", "o", "\n", "\n", "W", "o", "r", "l", "d">>

\* ---- C17 ----
StripPatternsOf(kind) == IF kind \in LatexKinds THEN LatexStripPatterns ELSE MarkdownStripPatterns

\* s holds no match of the normalizer's strip or replace patterns
NoPatternLeft(kind, s) ==
  /\ CollectRemovals(s, StripPatternsOf(kind)) = <<>>
  /\ kind \in LatexKinds => ReplaceDisplayMathFrom(s, 0) = s

\* C17 (as stated): normalizing the normalized text again changes nothing.
C17_Original == npc = "again" => nagain.normalized = nres.normalized

\* C17 (corrected): normalizing the normalized text again changes nothing
\* when that text holds no match of the normalizer's strip or replace
\* patterns (a removal can join text into a new \label{...}, comment, or
\* link definition, which the second pass then removes).
C17_Idempotent ==
  npc = "again" /\ NoPatternLeft(nkind, nres.normalized) => nagain.normalized = nres.normalized

\* a text the first pass changed, normalized twice
C17_Witness ==
  /\ npc = "again" /\ NoPatternLeft(nkind, nres.normalized)
  /\ nres.normalized # ntext /\ Len(nres.normalized) > 1


\* ------------------------------------------------------------------
\* fuzzyMatching: similarity, findFuzzyMatch
\* ------------------------------------------------------------------
Max2(x, y) == IF x >= y THEN x ELSE y

ZeroRow(n) == [k \in 1..(n + 1) |-> 0]

RECURSIVE SimRowFrom(_, _, _, _, _)
\* for (let j = 1; j <= n; j++) of similarity for the character c = a[i - 1],
\* writing into row (row[k + 1] is the code's curr[k])
SimRowFrom(c, b, prev, row, j) ==
  IF j >= Len(row) THEN row
  ELSE SimRowFrom(c, b, prev,
                  [row EXCEPT ![j + 1] = IF c = b[j] THEN prev[j] + 1 ELSE Max2(prev[j + 1], row[j])],
                  j + 1)

RECURSIVE SimLoop(_, _, _, _, _)
\* for (let i = 1; i <= m; i++) of similarity over the rows prev and curr;
\* [prev, curr] = [curr, prev] after each row
SimLoop(a, b, ix, prev, curr) ==
  IF ix > Len(a) THEN [prev |-> prev, curr |-> curr]
  ELSE SimLoop(a, b, ix + 1, SimRowFrom(a[ix], b, prev, curr, 1), prev)

\* (2 * lcsLength) / (m + n)
SimScore(a, b, lcsLength) == Ratio(2 * lcsLength, Len(a) + Len(b))

\* mutant: lcsLength is read from curr, the row before the last
similarityLastRowSwapped(a, b) ==
  IF Len(a) = 0 \/ Len(b) = 0 THEN Ratio(0, 1)
  ELSE IF a = b THEN Ratio(1, 1)
  ELSE SimScore(a, b, SimLoop(a, b, 1, ZeroRow(Len(b)), ZeroRow(Len(b))).curr[Len(b) + 1])

\* similarity(a, b)
similarity(a, b) ==
  IF Len(a) = 0 \/ Len(b) = 0 THEN Ratio(0, 1)
  ELSE IF a = b THEN Ratio(1, 1)
  ELSE SimScore(a, b, SimLoop(a, b, 1, ZeroRow(Len(b)), ZeroRow(Len(b))).prev[Len(b) + 1])

\* the strings similarity is checked on
MaxSimLen == 3
SimChars == {"a", "b"}
SimStrings == UNION {[1..k -> SimChars] : k \in 0..MaxSimLen}

SimInit ==
  /\ RIdle
  /\ MIdle
  /\ NIdle
  /\ XIdle
  /\ GIdle
  /\ fpc = "sim"
  /\ fa \in SimStrings
  /\ fb \in SimStrings
  /\ fthr = Ratio(0, 1)
  /\ fsim = Ratio(0, 1)
  /\ fsimRev = Ratio(0, 1)
  /\ fres = NoFuzzy

\* similarity(a, b) and similarity(b, a)
Similarity ==
  /\ fpc = "sim"
  /\ fsim' = similarity(fa, fb)
  /\ fsimRev' = similarity(fb, fa)
  /\ fpc' = "simdone"
  /\ UNCHANGED <<fa, fb, fthr, fres>>
  /\ UNCHANGED vars
  /\ UNCHANGED mvars
  /\ UNCHANGED nvars
  /\ UNCHANGED xvars
  /\ UNCHANGED gvars

SimSpec == SimInit /\ [][Similarity]_fvars

\* ---- C18 ----
\* C18: similarity(a, b) = 2 * LCS(a, b) / (|a| + |b|) is symmetric, lies in
\* [0, 1], is 1 exactly when a = b for non-empty strings, and is 0 when
\* either string is empty.
C18_SimilarityContract ==
  fpc = "simdone" =>
    /\ RatEq(fsim, fsimRev)
    /\ 0 <= fsim.num /\ fsim.num <= fsim.den
    /\ (Len(fa) > 0 /\ Len(fb) > 0 => (RatEq(fsim, Ratio(1, 1)) <=> fa = fb))
    /\ (Len(fa) = 0 \/ Len(fb) = 0 => RatEq(fsim, Ratio(0, 1)))

\* two different strings of different lengths with a partial common subsequence
C18_Witness ==
  /\ fpc = "simdone" /\ fa # fb /\ Len(fa) # Len(fb)
  /\ 0 < fsim.num /\ fsim.num < fsim.den


\* ---- findFuzzyMatch ----
Lowercase == <<"a", "b", "c", "d", "e", "f", "g", "h", "i", "j", "k", "l", "m", "n", "o", "p", "q", "r", "s", "t", "u", "v", "w", "x", "y", "z">>
Uppercase == <<"A", "B", "C", "D", "E", "F", "G", "H", "I", "J", "K", "L", "M", "N", "O", "P", "Q", "R", "S", "T", "U", "V", "W", "X", "Y", "Z">>
Digits == <<"0", "1", "2", "3", "4", "5", "6", "7", "8", "9">>

\* String.prototype.toLowerCase on one character
Lower(c) ==
  IF \E k \in 1..26 : Uppercase[k] = c THEN Lowercase[CHOOSE k \in 1..26 : Uppercase[k] = c] ELSE c

\* /[a-z0-9]/
AlnumChars == {Lowercase[k] : k \in 1..26} \cup {Digits[k] : k \in 1..10}

RECURSIVE CollapseWs(_, _, _)
\* .replace(/\s+/g, " ") from offset k
CollapseWs(s, k, acc) ==
  IF k >= Len(s) THEN acc
  ELSE CollapseWs(s, k + 1,
                  IF IsWs(CharAt(s, k)) /\ k > 0 /\ IsWs(CharAt(s, k - 1)) THEN acc
                  ELSE Append(acc, IF IsWs(CharAt(s, k)) THEN " " ELSE CharAt(s, k)))

\* .replace(/[^a-z0-9\s]/g, "") on the lowercased text
KeepAlnumWs(lowered) == SelectSeq(lowered, LAMBDA c : c \in AlnumChars \/ IsWs(c))

\* normalizeForComparison(text)
normalizeForComparison(text) ==
  TrimLeft(TrimRight(CollapseWs(KeepAlnumWs([k \in 1..Len(text) |-> Lower(text[k])]), 0, <<>>)))

RECURSIVE PosMapLoop(_, _, _, _)
\* for (let i = 0; i < original.length; i++) of buildPositionMap
PosMapLoop(o, ix, inWs, pm) ==
  IF ix >= Len(o) THEN pm
  ELSE PosMapLoop(o, ix + 1,
                  IF Lower(CharAt(o, ix)) \in AlnumChars THEN FALSE
                  ELSE IF IsWs(CharAt(o, ix)) /\ ~inWs /\ Len(pm) > 0 THEN TRUE ELSE inWs,
                  IF Lower(CharAt(o, ix)) \in AlnumChars \/ (IsWs(CharAt(o, ix)) /\ ~inWs /\ Len(pm) > 0)
                  THEN Append(pm, ix) ELSE pm)

RECURSIVE TrimPosMap(_, _)
\* while (posMap.length > 0 && /\s/.test(original[posMap[posMap.length - 1]])) posMap.pop()
TrimPosMap(o, pm) ==
  IF Len(pm) > 0 /\ IsWs(CharAt(o, pm[Len(pm)])) THEN TrimPosMap(o, SubSeq(pm, 1, Len(pm) - 1)) ELSE pm

\* buildPositionMap(original)
buildPositionMap(original) == TrimPosMap(original, PosMapLoop(original, 0, FALSE, <<>>))

\* Math.floor(windowSize * 0.3) (exact for the window sizes here)
Tolerance(windowSize) == (3 * windowSize) \div 10

\* the score 0.95
HighScore == Ratio(19, 20)

\* bestScore, bestStart, bestEnd after the window at i of the given size, of score sc
Better(best, sc, ix, size) == IF RatLt(best.score, sc) THEN [score |-> sc, start |-> ix, end |-> ix + size] ELSE best

RECURSIVE FuzzyWindows(_, _, _, _, _), FuzzyWindowAt(_, _, _, _, _, _)
\* for (let i = 0; i <= normContent.length - size; i += ...) of findFuzzyMatch
FuzzyWindows(ne, nc, size, ix, best) ==
  IF ix > Len(nc) - size THEN [best |-> best, skipped |-> FALSE]
  ELSE FuzzyWindowAt(ne, nc, size, ix, best, similarity(ne, SubSeq(nc, ix + 1, ix + size)))

\* the window at ix of score sc; if (score > 0.95) break
FuzzyWindowAt(ne, nc, size, ix, best, sc) ==
  IF RatLt(HighScore, sc) THEN [best |-> Better(best, sc, ix, size), skipped |-> FALSE]
  ELSE FuzzyWindows(ne, nc, size, ix + Max2(1, size \div 10), Better(best, sc, ix, size))

RECURSIVE FuzzySizes(_, _, _, _, _), FuzzySizeDone(_, _, _, _, _)
\* for (let size = windowSize - tolerance; size <= windowSize + tolerance; size++);
\* best = [score |-> bestScore, start |-> bestStart, end |-> bestEnd]
FuzzySizes(ne, nc, size, maxSize, best) ==
  IF size > maxSize THEN best
  ELSE FuzzySizeDone(ne, nc, size, maxSize,
                     IF size > Len(nc) THEN [best |-> best, skipped |-> TRUE]
                     ELSE FuzzyWindows(ne, nc, size, 0, best))

\* after the inner loop r: if (bestScore > 0.95) break (not reached on continue)
FuzzySizeDone(ne, nc, size, maxSize, r) ==
  FuzzySizes(ne, nc, IF ~r.skipped /\ RatLt(HighScore, r.best.score) THEN maxSize + 1 ELSE size + 1,
             maxSize, r.best)

\* posMap[k] ?? dflt
PosMapOr(pm, k, dflt) == IF 0 <= k /\ k < Len(pm) THEN pm[k + 1] ELSE dflt

\* excerpt.trim().split(/\s+/)[0]
FirstWordOf(t) == SubSeq(t, 1, NonWsRun(t, 0))
FirstWord(excerpt) == FirstWordOf(TrimLeft(TrimRight(excerpt)))

\* the refined start: content.indexOf(firstWord, origStart) when firstWord
\* has at least 3 characters (-1 otherwise)
RefinedStart(ctext, fw, origStart) == IF Len(fw) >= 3 THEN IndexOf(ctext, fw, origStart) ELSE -1

\* the returned { start, end, score } with the refined start rs
FuzzyResultAt(best, origStart, origEnd, rs) ==
  [found |-> TRUE,
   start |-> IF rs >= 0 /\ rs < origEnd /\ rs - origStart < 20 THEN rs ELSE origStart,
   end |-> origEnd, score |-> best.score, best |-> best.score]

FuzzyRefine(ctext, excerpt, best, origStart, origEnd) ==
  FuzzyResultAt(best, origStart, origEnd, RefinedStart(ctext, FirstWord(excerpt), origStart))

\* mutant: the bestStart >= 0 test is left out
FuzzyBestNoStartCheck(ctext, excerpt, thr, pm, best) ==
  IF ~RatLt(best.score, thr) /\ best.end <= Len(pm)
  THEN FuzzyRefine(ctext, excerpt, best, PosMapOr(pm, best.start, 0),
                   PosMapOr(pm, IF best.end - 1 <= Len(pm) - 1 THEN best.end - 1 ELSE Len(pm) - 1, Len(ctext)))
  ELSE [NoFuzzy EXCEPT !.best = best.score]

\* if (bestScore >= threshold && bestStart >= 0 && bestEnd <= posMap.length)
FuzzyBest(ctext, excerpt, thr, pm, best) ==
  IF ~RatLt(best.score, thr) /\ best.start >= 0 /\ best.end <= Len(pm)
  THEN FuzzyRefine(ctext, excerpt, best, PosMapOr(pm, best.start, 0),
                   PosMapOr(pm, IF best.end - 1 <= Len(pm) - 1 THEN best.end - 1 ELSE Len(pm) - 1, Len(ctext)))
  ELSE [NoFuzzy EXCEPT !.best = best.score]

\* the windows of normContent nc scored against normExcerpt ne
FuzzyNorm(ctext, excerpt, thr, ne, nc) ==
  IF Len(ne) < 10 THEN NoFuzzy
  ELSE FuzzyBest(ctext, excerpt, thr, buildPositionMap(ctext),
                 FuzzySizes(ne, nc, Len(ne) - Tolerance(Len(ne)), Len(ne) + Tolerance(Len(ne)),
                            [score |-> Ratio(0, 1), start |-> -1, end |-> -1]))

\* findFuzzyMatch(content, excerpt, threshold)
findFuzzyMatch(ctext, excerpt, thr) ==
  FuzzyNorm(ctext, excerpt, thr, normalizeForComparison(excerpt), normalizeForComparison(ctext))

\* contents, excerpts and thresholds findFuzzyMatch is checked on
FuzzyAlpha == <<"A", "l", "p", "h", "a", " ", "b", "e", "t", "a", ",", " ", "g", "a", "m", "m", "a", " ", "d", "e", "l", "t", "a", ".">>
FuzzyCat == <<"T", "h", "e", " ", "c", "a", "t", " ", "s", "a", "t", " ", "o", "n", " ", "t", "h", "e", " ", "m", "a", "t", ".">>
FuzzyHi == <<"H", "i", ".">>
FuzzyIntro == <<"I", "n", "t", "r", "o", ":", " ", "a", "l", "p", "h", "a", " ", "b", "e", "t", "a", " ", "g", "a", "m", "m", "a">>
ExGammaDelta == <<"g", "a", "m", "m", "a", " ", "d", "e", "l", "t", "a">>
ExTypo == <<"B", "e", "t", "a", " ", "g", "a", "m", "m", "e", " ", "d", "e", "l", "a">>
ExCatSat == <<"c", "a", "t", " ", "s", "a", "t", " ", "o", "n">>
ExShort == <<"b", "e", "t", "a", ",", " ", "g", "a", "m">>
ExNoCommon == <<"x", "y", "z", "w", "q", "v", "x", "y", "z", "w">>
ExGammaDeltaDot == <<"g", "a", "m", "m", "a", " ", "d", "e", "l", "t", "a", ".">>
ExBetaGammaDelta == <<"b", "e", "t", "a", ",", " ", "g", "a", "m", "m", "a", " ", "d", "e", "l", "t", "a">>
FuzzyContents == {FuzzyAlpha, FuzzyCat, FuzzyHi, FuzzyIntro}
FuzzyExcerpts == {ExGammaDelta, ExTypo, ExCatSat, ExShort, ExNoCommon, ExGammaDeltaDot, ExBetaGammaDelta}
FuzzyThresholds == {Ratio(0, 1), Ratio(7, 10), Ratio(1, 1)}

FuzzyInit ==
  /\ RIdle
  /\ MIdle
  /\ NIdle
  /\ XIdle
  /\ GIdle
  /\ fpc = "fuzzy"
  /\ fa \in FuzzyContents
  /\ fb \in FuzzyExcerpts
  /\ fthr \in FuzzyThresholds
  /\ fsim = Ratio(0, 1)
  /\ fsimRev = Ratio(0, 1)
  /\ fres = NoFuzzy

\* findFuzzyMatch(content, excerpt, threshold)
FindFuzzy ==
  /\ fpc = "fuzzy"
  /\ fres' = findFuzzyMatch(fa, fb, fthr)
  /\ fpc' = "fuzzydone"
  /\ UNCHANGED <<fa, fb, fthr, fsim, fsimRev>>
  /\ UNCHANGED vars
  /\ UNCHANGED mvars
  /\ UNCHANGED nvars
  /\ UNCHANGED xvars
  /\ UNCHANGED gvars

FuzzySpec == FuzzyInit /\ [][FindFuzzy]_fvars


\* ---- C19 ----
\* C19 (as stated): findFuzzyMatch returns null exactly when the normalized
\* excerpt has fewer than 10 characters or the best window score is below
\* threshold; otherwise it returns { start, end, score } with
\* score >= threshold and 0 <= start <= end <= content.length.
C19_Original ==
  fpc = "fuzzydone" =>
    /\ fres.found <=> ~(Len(normalizeForComparison(fb)) < 10 \/ RatLt(fres.best, fthr))
    /\ fres.found => /\ ~RatLt(fres.score, fthr)
                     /\ 0 <= fres.start /\ fres.start <= fres.end /\ fres.end <= Len(fa)

\* C19 (corrected): findFuzzyMatch returns null exactly when the normalized
\* excerpt has fewer than 10 characters, the best window score is below
\* threshold, or no window scores above 0 (bestStart stays -1, which matters
\* for a threshold <= 0); otherwise it returns { start, end, score } with
\* score >= threshold and 0 <= start <= end <= content.length.
C19_FuzzyResult ==
  fpc = "fuzzydone" =>
    /\ fres.found <=> ~(Len(normalizeForComparison(fb)) < 10 \/ RatLt(fres.best, fthr) \/ fres.best.num = 0)
    /\ fres.found => /\ ~RatLt(fres.score, fthr)
                     /\ 0 <= fres.start /\ fres.start <= fres.end /\ fres.end <= Len(fa)

\* a fuzzy (not exact) match found at the default threshold
C19_Witness ==
  /\ fpc = "fuzzydone" /\ fres.found /\ fthr = Ratio(7, 10)
  /\ RatLt(fres.score, Ratio(1, 1)) /\ fres.start < fres.end


\* ------------------------------------------------------------------
\* matchExcerptWithFallback
\* ------------------------------------------------------------------
\* the character U+2026 (horizontal ellipsis), one element of a string
Ellipsis == "U+2026"

RECURSIVE DotRun(_, _)
\* length of the run of "." starting at p
DotRun(s, p) == IF p < Len(s) /\ CharAt(s, p) = "." THEN 1 + DotRun(s, p + 1) ELSE 0

RECURSIVE SplitLoop(_, _, _, _), SplitAt(_, _, _, _, _)
\* excerpt.split(/\.{3,}|\u2026/) from offset p: cur is the piece being
\* read, acc the pieces before it
SplitLoop(s, p, cur, acc) ==
  IF p >= Len(s) THEN Append(acc, cur)
  ELSE SplitAt(s, p, cur, acc,
               IF CharAt(s, p) = Ellipsis THEN 1 ELSE IF DotRun(s, p) >= 3 THEN DotRun(s, p) ELSE 0)

\* a separator of length sep at p (0: none)
SplitAt(s, p, cur, acc, sep) ==
  SplitLoop(s, p + Max2(sep, 1),
            IF sep > 0 THEN <<>> ELSE Append(cur, CharAt(s, p)),
            IF sep > 0 THEN Append(acc, cur) ELSE acc)

\* .map((s) => s.trim()) on the pieces
TrimPieces(pieces) == [k \in 1..Len(pieces) |-> TrimLeft(TrimRight(pieces[k]))]

\* excerpt.split(/\.{3,}|\u2026/).map((s) => s.trim())
EllipsisPieces(excerpt) == TrimPieces(SplitLoop(excerpt, 0, <<>>, <<>>))

\* mutant: fragments of 20 characters are kept
splitOnEllipsisAtLeast20(excerpt) == SelectSeq(EllipsisPieces(excerpt), LAMBDA p : Len(p) >= 20)

\* splitOnEllipsis: .filter((s) => s.length > 20)
splitOnEllipsis(excerpt) == SelectSeq(EllipsisPieces(excerpt), LAMBDA p : Len(p) > 20)

\* matcher.matchExcerpt(excerpt) of a SpanMatcher without a normalizer
\* (findAll false): the rows of the first occurrence
MatchExcerptFirst(text, sorted, excerpt) ==
  IF IndexOf(text, excerpt, 0) = -1 THEN <<>>
  ELSE findNodesForRange(sorted, IndexOf(text, excerpt, 0), IndexOf(text, excerpt, 0) + Len(excerpt))

\* the end node row of buildMatchesFromRange after the start rows r1
BuildMatchesEnd(end, en, r1) ==
  IF en = <<>> THEN r1
  ELSE IF r1 = <<>> \/ en[1].nodeId # r1[1].nodeId
       THEN Append(r1, [nodeId |-> en[1].nodeId, nodeType |-> en[1].type, matchType |-> "end",
                        offset |-> end - en[1].start])
       ELSE IF Len(r1) = 1 THEN <<[r1[1] EXCEPT !.matchType = "single"]>> ELSE r1

\* the start node row of buildMatchesFromRange, then its end node row
BuildMatchesFrom(start, end, sn, en) ==
  BuildMatchesEnd(end, en,
                  IF sn # <<>>
                  THEN <<[nodeId |-> sn[1].nodeId, nodeType |-> sn[1].type, matchType |-> "start",
                          offset |-> start - sn[1].start]>>
                  ELSE <<>>)

\* buildMatchesFromRange(matcher, start, end)
buildMatchesFromRange(sorted, start, end) ==
  BuildMatchesFrom(start, end, findAllNodesAtPosition(sorted, start),
                   findAllNodesAtPosition(sorted, IF end > 0 THEN end - 1 ELSE end))

\* LEAF_TOKEN_TYPES (../types): text, equation, equation array, code,
\* reference, citation
LEAF_TOKEN_TYPES == {"text", "equation", "equation_array", "code", "ref", "citation"}

\* index of the first row of c whose matchType is in types, 0 if none
FirstWhere(c, types) ==
  IF \E k \in 1..Len(c) : c[k].matchType \in types
  THEN CHOOSE k \in 1..Len(c) : c[k].matchType \in types /\ \A l \in 1..(k - 1) : c[l].matchType \notin types
  ELSE 0

\* the start node st and end node en of the candidates c
LeafPick(c, st, en) ==
  IF st > 0 /\ en > 0 /\ c[st].nodeId # c[en].nodeId THEN <<c[st], c[en]>>
  ELSE IF st > 0 THEN <<c[st]>>
  ELSE <<c[1]>>

\* candidates c: if (candidates.length === 0) return []
LeafCandidates(c) == IF c = <<>> THEN <<>> ELSE LeafPick(c, FirstWhere(c, {"start", "single"}), FirstWhere(c, {"end"}))

\* mutant: contains rows of a leaf kind stay candidates
filterToLeafRangeKeepContains(matches) ==
  IF matches = <<>> THEN <<>>
  ELSE LeafCandidates(
         IF SelectSeq(matches, LAMBDA m : m.nodeType \in LEAF_TOKEN_TYPES) # <<>>
         THEN SelectSeq(matches, LAMBDA m : m.nodeType \in LEAF_TOKEN_TYPES)
         ELSE SelectSeq(matches, LAMBDA m : m.matchType # "contains"))

\* filterToLeafRange(matches)
filterToLeafRange(matches) ==
  IF matches = <<>> THEN <<>>
  ELSE LeafCandidates(
         IF SelectSeq(matches, LAMBDA m : m.matchType # "contains" /\ m.nodeType \in LEAF_TOKEN_TYPES) # <<>>
         THEN SelectSeq(matches, LAMBDA m : m.matchType # "contains" /\ m.nodeType \in LEAF_TOKEN_TYPES)
         ELSE SelectSeq(matches, LAMBDA m : m.matchType # "contains"))

\* the rows of a fuzzy strategy: buildMatchesFromRange on a findFuzzyMatch
\* result (none when it is null)
FuzzyRows(sorted, fr) == IF fr.found THEN buildMatchesFromRange(sorted, fr.start, fr.end) ELSE <<>>

\* findFuzzyMatch's default threshold 0.7
DefaultThreshold == Ratio(7, 10)

\* one strategy attempt: its kind, the text tried and the rows it gave
Attempt(kind, frag, raw) == [kind |-> kind, frag |-> frag, raw |-> raw, ok |-> raw # <<>>]

\* ---- inputs ----
FallbackText == <<"o", "n", "e", " ", "t", "w", "o", " ", "t", "h", "r", "e", "e", " ", "f", "o", "u", "r", " ", "f", "i", "v", "e", " ", "s", "i", "x", " ", "s", "e", "v", "e", "n">>
XTwoThree == <<"t", "w", "o", " ", "t", "h", "r", "e", "e">>
XFragment22 == <<"o", "n", "e", " ", "t", "w", "o", " ", "t", "h", "r", "e", "e", " ", "f", "o", "u", "r", " ", "f", "i", "v", ".", ".", ".", "z", "z", "z">>
XFragment20 == <<"o", "n", "e", " ", "t", "w", "o", " ", "t", "h", "r", "e", "e", " ", "f", "o", "u", "r", " ", "f", ".", ".", ".", "z", "z", "z", "z">>
XFuzzyFragment == <<"z", "z", "z", "z", " ", "y", "y", "y", "y", " ", "x", "x", "x", "x", " ", "w", "w", "w", "w", " ", Ellipsis, " ", "o", "n", "e", " ", "t", "w", "o", " ", "t", "h", "r", "e", " ", "f", "o", "u", "r", " ", "f", "i", "v", "e">>
XNoMatch == <<"z", "z", "z", "z", " ", "y", "y", "y", "y", " ", "x", "x", "x", "x", " ", "w", "w", "w", "w">>
XOneTwoThree == <<"o", "n", "e", " ", "t", "w", "o", " ", "t", "h", "r", "e", "e">>

FallbackSpanMaps ==
  { <<[nodeId |-> 1, start |-> 0, end |-> 33, type |-> "section"],
      [nodeId |-> 2, start |-> 0, end |-> 14, type |-> "text"],
      [nodeId |-> 3, start |-> 14, end |-> 33, type |-> "text"]>>,
    <<[nodeId |-> 1, start |-> 0, end |-> 14, type |-> "text"],
      [nodeId |-> 2, start |-> 14, end |-> 33, type |-> "text"]>>,
    <<[nodeId |-> 1, start |-> 4, end |-> 7, type |-> "text"]>> }

FallbackExcerpts == {XTwoThree, XFragment22, XFragment20, XFuzzyFragment, XNoMatch, XOneTwoThree}

\* matchExcerptWithFallback(matcher, excerpt, content): the matcher over
\* FallbackText, the excerpt fb, the content fa ("" or the text)
FallbackInit ==
  /\ RIdle
  /\ NIdle
  /\ \E sp \in FallbackSpanMaps :
       /\ mtext = FallbackText /\ mspans = sp /\ msorted = SortSpans(sp)
  /\ mpc = "idle"
  /\ mquery = [op |-> "none", pos |-> 0, excerpt |-> <<>>, findAll |-> FALSE]
  /\ mss = 0 /\ mres = <<>>
  /\ fpc = "off"
  /\ fa \in {<<>>, FallbackText}
  /\ fb \in FallbackExcerpts
  /\ fthr = Ratio(0, 1) /\ fsim = Ratio(0, 1) /\ fsimRev = Ratio(0, 1) /\ fres = NoFuzzy
  /\ xpc = "exact" /\ xparts = <<>> /\ xk = 0 /\ xtried = <<>> /\ xout = <<>>
  /\ GIdle

\* Strategy 1: matcher.matchExcerpt(excerpt); parts = splitOnEllipsis(excerpt)
FallbackExact ==
  /\ xpc = "exact"
  /\ \E raw \in {MatchExcerptFirst(mtext, msorted, fb)} :
       /\ xtried' = Append(xtried, Attempt("exact", fb, raw))
       /\ IF raw # <<>>
          THEN xpc' = "done" /\ xout' = filterToLeafRange(raw) /\ UNCHANGED <<xparts, xk>>
          ELSE xpc' = "parts" /\ xparts' = splitOnEllipsis(fb) /\ xk' = 1 /\ UNCHANGED xout
  /\ UNCHANGED vars
  /\ UNCHANGED mvars
  /\ UNCHANGED nvars
  /\ UNCHANGED fvars
  /\ UNCHANGED gvars

\* Strategy 2: matcher.matchExcerpt(part) for the next part
FallbackPart ==
  /\ xpc = "parts"
  /\ xk <= Len(xparts)
  /\ \E raw \in {MatchExcerptFirst(mtext, msorted, xparts[xk])} :
       /\ xtried' = Append(xtried, Attempt("part", xparts[xk], raw))
       /\ IF raw # <<>>
          THEN xpc' = "done" /\ xout' = filterToLeafRange(raw) /\ UNCHANGED xk
          ELSE xk' = xk + 1 /\ UNCHANGED <<xpc, xout>>
  /\ UNCHANGED xparts
  /\ UNCHANGED vars
  /\ UNCHANGED mvars
  /\ UNCHANGED nvars
  /\ UNCHANGED fvars
  /\ UNCHANGED gvars

\* the parts are exhausted: if (content) Strategy 3, else return []
FallbackPartsDone ==
  /\ xpc = "parts"
  /\ xk > Len(xparts)
  /\ IF fa # <<>> THEN xpc' = "fuzzy" ELSE xpc' = "done"
  /\ UNCHANGED <<xparts, xk, xtried, xout>>
  /\ UNCHANGED vars
  /\ UNCHANGED mvars
  /\ UNCHANGED nvars
  /\ UNCHANGED fvars
  /\ UNCHANGED gvars

\* Strategy 3: findFuzzyMatch(content, excerpt), buildMatchesFromRange
FallbackFuzzy ==
  /\ xpc = "fuzzy"
  /\ \E raw \in {FuzzyRows(msorted, findFuzzyMatch(fa, fb, DefaultThreshold))} :
       /\ xtried' = Append(xtried, Attempt("fuzzy", fb, raw))
       /\ IF raw # <<>>
          THEN xpc' = "done" /\ xout' = filterToLeafRange(raw) /\ UNCHANGED xk
          ELSE xpc' = "fuzzyparts" /\ xk' = 1 /\ UNCHANGED xout
  /\ UNCHANGED xparts
  /\ UNCHANGED vars
  /\ UNCHANGED mvars
  /\ UNCHANGED nvars
  /\ UNCHANGED fvars
  /\ UNCHANGED gvars

\* findFuzzyMatch(content, part) for the next part
FallbackFuzzyPart ==
  /\ xpc = "fuzzyparts"
  /\ xk <= Len(xparts)
  /\ \E raw \in {FuzzyRows(msorted, findFuzzyMatch(fa, xparts[xk], DefaultThreshold))} :
       /\ xtried' = Append(xtried, Attempt("fuzzypart", xparts[xk], raw))
       /\ IF raw # <<>>
          THEN xpc' = "done" /\ xout' = filterToLeafRange(raw) /\ UNCHANGED xk
          ELSE xk' = xk + 1 /\ UNCHANGED <<xpc, xout>>
  /\ UNCHANGED xparts
  /\ UNCHANGED vars
  /\ UNCHANGED mvars
  /\ UNCHANGED nvars
  /\ UNCHANGED fvars
  /\ UNCHANGED gvars

\* all strategies failed: return []
FallbackFail ==
  /\ xpc = "fuzzyparts"
  /\ xk > Len(xparts)
  /\ xpc' = "done"
  /\ UNCHANGED <<xparts, xk, xtried, xout>>
  /\ UNCHANGED vars
  /\ UNCHANGED mvars
  /\ UNCHANGED nvars
  /\ UNCHANGED fvars
  /\ UNCHANGED gvars

FallbackNext ==
  FallbackExact \/ FallbackPart \/ FallbackPartsDone \/ FallbackFuzzy \/ FallbackFuzzyPart \/ FallbackFail

FallbackSpec == FallbackInit /\ [][FallbackNext]_xvars

\* ---- C20 ----
StrategyRank(kind) ==
  CASE kind = "exact" -> 1 [] kind = "part" -> 2 [] kind = "fuzzy" -> 3 [] kind = "fuzzypart" -> 4

\* the texts of the attempts of one kind, in order
KindFrags(tried, kind) ==
  LET ks == SelectSeq(tried, LAMBDA a : a.kind = kind) IN [k \in 1..Len(ks) |-> ks[k].frag]

\* the attempts tried are, in order: the exact match of the excerpt; the
\* exact match of each fragment of frags; if content is given, the fuzzy
\* match of the excerpt, then of each fragment; each only after every
\* earlier one returned no rows, and the result is the last one's rows
\* through filterToLeafRange, or [] if none gave rows
FallbackOrder(frags) ==
  xpc = "done" =>
    LET n == Len(xtried)
        last == xtried[n]
        exactOk == \E k \in 1..n : xtried[k].kind \in {"exact", "part"} /\ xtried[k].ok
        parts == KindFrags(xtried, "part")
        fparts == KindFrags(xtried, "fuzzypart")
        fuzzyTried == \E k \in 1..n : xtried[k].kind = "fuzzy"
    IN /\ n >= 1 /\ xtried[1].kind = "exact" /\ xtried[1].frag = fb
       /\ \A k \in 1..(n - 1) : ~xtried[k].ok /\ StrategyRank(xtried[k].kind) <= StrategyRank(xtried[k + 1].kind)
       /\ \A k \in 1..n : xtried[k].kind = "fuzzy" => xtried[k].frag = fb
       /\ Len(parts) <= Len(frags) /\ parts = SubSeq(frags, 1, Len(parts))
       /\ Len(parts) < Len(frags) => last.ok /\ last.kind \in {"exact", "part"}
       /\ fuzzyTried <=> (fa # <<>> /\ ~exactOk)
       /\ Len(fparts) <= Len(frags) /\ fparts = SubSeq(frags, 1, Len(fparts))
       /\ fuzzyTried /\ Len(fparts) < Len(frags) => last.ok /\ last.kind \in {"fuzzy", "fuzzypart"}
       /\ xout = IF last.ok THEN filterToLeafRange(last.raw) ELSE <<>>

\* C20 (as stated): matchExcerptWithFallback tries, in order, the exact match
\* of the excerpt, the exact match of each ellipsis fragment of at least 20
\* characters, then (content given) the fuzzy match of the excerpt and of
\* each fragment, stopping at the first that gives rows; it returns those
\* rows through filterToLeafRange, or [] if all fail.
C20_Original == FallbackOrder(SelectSeq(EllipsisPieces(fb), LAMBDA p : Len(p) >= 20))

\* C20 (corrected): the same order, where the ellipsis fragments are those
\* of more than 20 characters (a fragment of exactly 20 is dropped).
C20_FallbackOrder == FallbackOrder(SelectSeq(EllipsisPieces(fb), LAMBDA p : Len(p) > 20))

\* the last strategy, a fuzzy match of a fragment, gave the rows
C20_Witness ==
  /\ xpc = "done" /\ Len(xtried) >= 4
  /\ xtried[Len(xtried)].kind = "fuzzypart" /\ xtried[Len(xtried)].ok /\ xout # <<>>


\* ------------------------------------------------------------------
\* filterToLeafRange on its own
\* ------------------------------------------------------------------
MaxRows == 3
\* nodes 1 and 2 are text (leaf) nodes, node 3 a section (container)
RowNodeType == [n \in 1..3 |-> IF n = 3 THEN "section" ELSE "text"]
MatchRows ==
  {[nodeId |-> n, nodeType |-> RowNodeType[n], matchType |-> t, offset |-> o] :
     n \in 1..3, t \in {"start", "end", "single", "contains"}, o \in {0, 42}}

\* the spec's example [leaf(single, offset = 42), container(contains), container(contains)]
LeafExample ==
  <<[nodeId |-> 1, nodeType |-> "text", matchType |-> "single", offset |-> 42],
    [nodeId |-> 3, nodeType |-> "section", matchType |-> "contains", offset |-> 0],
    [nodeId |-> 3, nodeType |-> "section", matchType |-> "contains", offset |-> 0]>>

LeafInit ==
  /\ RIdle /\ MIdle /\ NIdle /\ FIdle /\ XIdle
  /\ gpc = "leaf"
  /\ gin \in UNION {[1..k -> MatchRows] : k \in 0..MaxRows}
  /\ gout = <<>>

\* filterToLeafRange(matches)
FilterLeaf ==
  /\ gpc = "leaf"
  /\ gout' = filterToLeafRange(gin)
  /\ gpc' = "leafdone"
  /\ UNCHANGED gin
  /\ UNCHANGED vars
  /\ UNCHANGED mvars
  /\ UNCHANGED nvars
  /\ UNCHANGED fvars
  /\ UNCHANGED xvars

LeafSpec == LeafInit /\ [][FilterLeaf]_gvars

\* ---- C21 ----
\* the non-contains rows of a leaf kind
LeafRows(ms) == SelectSeq(ms, LAMBDA m : m.matchType # "contains" /\ m.nodeType \in LEAF_TOKEN_TYPES)

\* C21: filterToLeafRange returns at most two rows, none of them a contains
\* row, each an element of the input (offset unchanged); when the leaf-kind
\* candidates hold a start-or-single row and an end row of different nodes
\* it returns exactly [first start/single, first end] of them; on
\* [leaf(single, 42), container(contains), container(contains)] it returns [leaf].
C21_LeafRange ==
  gpc = "leafdone" =>
    /\ Len(gout) <= 2
    /\ \A k \in 1..Len(gout) : gout[k].matchType # "contains" /\ \E j \in 1..Len(gin) : gin[j] = gout[k]
    /\ LET st == FirstWhere(LeafRows(gin), {"start", "single"})
           en == FirstWhere(LeafRows(gin), {"end"})
       IN st > 0 /\ en > 0 /\ LeafRows(gin)[st].nodeId # LeafRows(gin)[en].nodeId =>
            gout = <<LeafRows(gin)[st], LeafRows(gin)[en]>>
    /\ gin = LeafExample => gout = <<LeafExample[1]>>

\* a start and an end row of two leaf nodes picked out of rows that include a
\* contains row
C21_Witness ==
  /\ gpc = "leafdone" /\ Len(gout) = 2
  /\ \E j \in 1..Len(gin) : gin[j].matchType = "contains"


\* ------------------------------------------------------------------
\* TokenExporter.export and the raw-token conversion
\* ------------------------------------------------------------------
\* ExportFormat
ExportFormats == {"text", "markdown", "latex", "json"}

\* an input array: token nodes, raw tokens, or empty
ExportInputs == {"nodes", "tokens", "empty"}

\* the result of a call: the error thrown (its message's subject in arg),
\* or the output of the format
Thrown(err, arg) == [error |-> err, arg |-> arg]
Returned(format) == [error |-> "none", arg |-> format]

\* TokenExporter.isTokenNodes: false for an empty array
isTokenNodes(input) == input = "nodes"

\* ensureNodes(input) then the static toX of the format: tokensToNodes throws
\* without a factory
InstanceToFormat(hasFactory, input, format) ==
  IF ~isTokenNodes(input) /\ ~hasFactory
  THEN Thrown("TokenExporter: factory required to convert raw tokens to nodes", "")
  ELSE Returned(format)

\* mutant: the input is converted before the format is looked at
ExportInstanceConvertFirst(hasFactory, input, format) ==
  IF ~isTokenNodes(input) /\ ~hasFactory
  THEN Thrown("TokenExporter: factory required to convert raw tokens to nodes", "")
  ELSE IF format \in ExportFormats THEN Returned(format)
  ELSE Thrown("TokenExporter: unknown format", format)

\* exporter.export(input, format): switch (format), default throws
ExportInstance(hasFactory, input, format) ==
  IF format \in ExportFormats THEN InstanceToFormat(hasFactory, input, format)
  ELSE Thrown("TokenExporter: unknown format", format)

\* the node method GetCopyContent / GetMarkdownContent / GetLatexContent /
\* GetJSONContent calls on each element of the array
NodeMethod(format) ==
  CASE format = "text" -> "TypeError: node.getCopyContent is not a function"
    [] format = "markdown" -> "TypeError: node.getMarkdownContent is not a function"
    [] format = "latex" -> "TypeError: node.getLatexContent is not a function"
    [] format = "json" -> "TypeError: node.getJSONContent is not a function"

\* TokenExporter.export(nodes, format): switch (format), default throws; the
\* static toX calls the node methods directly, which raw tokens lack
ExportStatic(input, format) ==
  IF format \in ExportFormats
  THEN IF input = "tokens" THEN Thrown(NodeMethod(format), "") ELSE Returned(format)
  ELSE Thrown("TokenExporter: unknown format", format)

\* format strings passed in, valid and not
ExportFormatArgs == ExportFormats \cup {"html", "LaTeX", "", "pdf"}

ExportInit ==
  /\ RIdle /\ MIdle /\ NIdle /\ FIdle /\ XIdle
  /\ gpc = "export"
  /\ gin \in [entry : {"static", "instance"}, factory : BOOLEAN, input : ExportInputs, format : ExportFormatArgs]
  /\ gout = <<>>

\* TokenExporter.export(nodes, format) or new TokenExporter(factory?).export(input, format)
ExportCall ==
  /\ gpc = "export"
  /\ gout' = IF gin.entry = "static" THEN ExportStatic(gin.input, gin.format)
             ELSE ExportInstance(gin.factory, gin.input, gin.format)
  /\ gpc' = "exportdone"
  /\ UNCHANGED gin
  /\ UNCHANGED vars
  /\ UNCHANGED mvars
  /\ UNCHANGED nvars
  /\ UNCHANGED fvars
  /\ UNCHANGED xvars

ExportSpec == ExportInit /\ [][ExportCall]_gvars

\* ---- C22 ----
\* C22: export with a format outside {text, markdown, latex, json} throws an
\* error naming that format, from the static and the instance entry points;
\* converting raw tokens with an exporter without a factory throws "factory
\* required"; neither returns an output (and the static entry, which has no
\* factory, fails on raw tokens with a TypeError).
C22_ExportErrors ==
  gpc = "exportdone" =>
    /\ gin.format \notin ExportFormats =>
         gout = Thrown("TokenExporter: unknown format", gin.format)
    /\ gin.entry = "instance" /\ gin.input = "tokens" /\ ~gin.factory /\ gin.format \in ExportFormats =>
         gout = Thrown("TokenExporter: factory required to convert raw tokens to nodes", "")
    /\ gout.error = "none" => gin.format \in ExportFormats
    /\ gin.entry = "static" /\ gin.input = "tokens" => gout.error # "none"

\* raw tokens with an unknown format on an exporter without a factory
C22_Witness ==
  /\ gpc = "exportdone" /\ gin.entry = "instance" /\ gin.input = "tokens" /\ ~gin.factory
  /\ gin.format \notin ExportFormats /\ gout.error # "none"


\* ------------------------------------------------------------------
\* Literal renderings: EquationTokenNode, TextTokenNode styles, CitationTokenNode
\* ------------------------------------------------------------------
\* STYLE_TO_LATEX for the bold and italic styles
STYLE_TO_LATEX(style) == IF style = "bold" THEN <<"t", "e", "x", "t", "b", "f">> ELSE <<"e", "m", "p", "h">>

\* wrapStylesToLatex: styles applied from the last to the first, each wrapping the result
RECURSIVE WrapLatexFrom(_, _, _)
WrapLatexFrom(out, styles, k) ==
  IF k < 1 THEN out
  ELSE WrapLatexFrom(<<"\\">> \o STYLE_TO_LATEX(styles[k]) \o <<"{">> \o out \o <<"}">>, styles, k - 1)

wrapStylesToLatex(text, styles) == WrapLatexFrom(text, styles, Len(styles))

\* wrapStylesToMarkdown: trimmed, then bold before italic (orderedStyles)
wrapStylesToMarkdown(ctext, styles) ==
  IF styles = <<>> THEN ctext
  ELSE LET isIn(st) == \E k \in DOMAIN styles : styles[k] = st
           r1 == Trim(ctext)
           r2 == IF isIn("bold") THEN <<"*", "*">> \o r1 \o <<"*", "*">> ELSE r1
       IN IF isIn("italic") THEN <<"*">> \o r2 \o <<"*">> ELSE r2

\* TextTokenNode.getLatexContent
TextLatexContent(raw, styles) ==
  IF raw = <<>> THEN <<>>
  ELSE wrapStylesToLatex(DoubleNewlines(escapeLatexSpecialChars(raw)), styles)

\* TextTokenNode.getMarkdownContent
TextMarkdownContent(raw, styles) ==
  IF raw = <<>> THEN <<>> ELSE wrapStylesToMarkdown(DoubleNewlines(raw), styles)

\* getLabelsLatex: one \label{l} per label joined by newlines, plus a newline
RECURSIVE LabelsJoin(_)
LabelsJoin(ls) ==
  IF ls = <<>> THEN <<>>
  ELSE <<"\\", "l", "a", "b", "e", "l", "{">> \o Head(ls) \o <<"}">> \o (IF Tail(ls) = <<>> THEN <<>> ELSE <<"\n">> \o LabelsJoin(Tail(ls)))

getLabelsLatex(labels) == IF labels = <<>> THEN <<>> ELSE LabelsJoin(labels) \o <<"\n">>

\* mutant: no newline after the closing delimiter of a block equation
EquationLatexContentNoTrailingNewline(display, numbering, labels, data) ==
  LET dataStr == Trim(data) IN
  IF display # "block" THEN <<"$">> \o dataStr \o <<"$">>
  ELSE IF numbering
       THEN <<"\\", "b", "e", "g", "i", "n", "{", "e", "q", "u", "a", "t", "i", "o", "n", "}", "\n">> \o getLabelsLatex(labels) \o dataStr \o <<"\n", "\\", "e", "n", "d", "{", "e", "q", "u", "a", "t", "i", "o", "n", "}">>
       ELSE <<"$", "$", "\n">> \o getLabelsLatex(labels) \o dataStr \o <<"\n", "$", "$">>

\* EquationTokenNode.getLatexContent (string data)
EquationLatexContent(display, numbering, labels, data) ==
  LET dataStr == Trim(data) IN
  IF display # "block" THEN <<"$">> \o dataStr \o <<"$">>
  ELSE IF numbering
       THEN <<"\\", "b", "e", "g", "i", "n", "{", "e", "q", "u", "a", "t", "i", "o", "n", "}", "\n">> \o getLabelsLatex(labels) \o dataStr \o <<"\n", "\\", "e", "n", "d", "{", "e", "q", "u", "a", "t", "i", "o", "n", "}", "\n">>
       ELSE <<"$", "$", "\n">> \o getLabelsLatex(labels) \o dataStr \o <<"\n", "$", "$", "\n">>

\* CitationTokenNode.getMarkdownContent (no title): links joined by ", "
RECURSIVE CitationLinks(_)
CitationLinks(keys) ==
  IF keys = <<>> THEN <<>>
  ELSE <<"[", "\\", "[">> \o Head(keys) \o <<"\\", "]", "]", "(", "#", "b", "i", "b", "-">> \o Head(keys) \o <<")">>
       \o (IF Tail(keys) = <<>> THEN <<>> ELSE <<",", " ">> \o CitationLinks(Tail(keys)))

\* the rendered node kinds of the literal contracts
LiteralKinds == {"eqInline", "eqBlock", "eqNumbered", "bold", "italic", "citation"}
LiteralTexts == {<<"E", "=", "m", "c">>, <<" ", "x", " ">>, <<"a", "_", "b">>, <<"5", "0", "%">>, <<"p", "\n", "q">>, <<>>}
LiteralKeys == {<<"k", "1">>, <<"a", "_", "b">>}
LiteralLabels == {<<>>, <<<<"e", "q", "1">>>>}

\* TokenExporter.toLatex / toMarkdown of one node: GetLatexContent / GetMarkdownContent
\* of a one-node list is that node's content
RenderLiteral(c) ==
  CASE c.kind = "eqInline" -> EquationLatexContent("inline", FALSE, c.labels, c.x)
    [] c.kind = "eqBlock" -> EquationLatexContent("block", FALSE, c.labels, c.x)
    [] c.kind = "eqNumbered" -> EquationLatexContent("block", TRUE, c.labels, c.x)
    [] c.kind = "bold" /\ c.fmt = "latex" -> TextLatexContent(c.x, <<"bold">>)
    [] c.kind = "italic" -> TextLatexContent(c.x, <<"italic">>)
    [] c.kind = "bold" /\ c.fmt = "markdown" -> TextMarkdownContent(c.x, <<"bold">>)
    [] c.kind = "citation" -> CitationLinks(<<c.x>>)

LiteralCases ==
  [fmt : {"latex"}, kind : {"eqInline", "eqBlock", "eqNumbered"}, x : LiteralTexts, labels : LiteralLabels]
  \cup [fmt : {"latex"}, kind : {"bold", "italic"}, x : LiteralTexts, labels : {<<>>}]
  \cup [fmt : {"markdown"}, kind : {"bold"}, x : LiteralTexts, labels : {<<>>}]
  \cup [fmt : {"markdown"}, kind : {"citation"}, x : LiteralKeys, labels : {<<>>}]

LiteralInit ==
  /\ RIdle /\ MIdle /\ NIdle /\ FIdle /\ XIdle
  /\ gpc = "literal"
  /\ gin \in LiteralCases
  /\ gout = <<>>

\* TokenExporter.toLatex([node]) or TokenExporter.toMarkdown([node])
RenderOne ==
  /\ gpc = "literal"
  /\ gout' = RenderLiteral(gin)
  /\ gpc' = "literaldone"
  /\ UNCHANGED gin
  /\ UNCHANGED vars
  /\ UNCHANGED mvars
  /\ UNCHANGED nvars
  /\ UNCHANGED fvars
  /\ UNCHANGED xvars

LiteralSpec == LiteralInit /\ [][RenderOne]_gvars

\* the literal of each case as stated, around the expression or text e
StatedLiteral(c, e) ==
  CASE c.kind = "eqInline" -> <<"$">> \o e \o <<"$">>
    [] c.kind = "eqBlock" -> <<"$", "$", "\n">> \o e \o <<"\n", "$", "$">>
    [] c.kind = "eqNumbered" -> <<"\\", "b", "e", "g", "i", "n", "{", "e", "q", "u", "a", "t", "i", "o", "n", "}", "\n">> \o e \o <<"\n", "\\", "e", "n", "d", "{", "e", "q", "u", "a", "t", "i", "o", "n", "}">>
    [] c.kind = "bold" /\ c.fmt = "latex" -> <<"\\", "t", "e", "x", "t", "b", "f", "{">> \o e \o <<"}">>
    [] c.kind = "italic" -> <<"\\", "e", "m", "p", "h", "{">> \o e \o <<"}">>
    [] c.kind = "bold" /\ c.fmt = "markdown" -> <<"*", "*">> \o e \o <<"*", "*">>
    [] c.kind = "citation" -> <<"[", "\\", "[">> \o e \o <<"\\", "]", "]", "(", "#", "b", "i", "b", "-">> \o e \o <<")">>

\* ---- C23 ----
\* C23 (as stated): each rendering is exactly the stated literal around the
\* expression or text, with nothing before or after it.
C23_Original == gpc = "literaldone" => gout = StatedLiteral(gin, gin.x)

\* C23: each rendering is the stated literal around the trimmed expression
\* (preceded by the \label lines for block equations), the escaped text with
\* newlines doubled (LaTeX) or the trimmed text (Markdown), or the key; block
\* and numbered equations end with one more newline; empty text renders empty.
C23_Literals ==
  gpc = "literaldone" =>
    CASE gin.kind \in {"eqBlock", "eqNumbered"} ->
           gout = StatedLiteral(gin, getLabelsLatex(gin.labels) \o Trim(gin.x)) \o <<"\n">>
      [] gin.kind = "eqInline" -> gout = StatedLiteral(gin, Trim(gin.x))
      [] gin.kind = "citation" -> gout = StatedLiteral(gin, gin.x)
      [] gin.x = <<>> -> gout = <<>>
      [] gin.fmt = "latex" -> gout = StatedLiteral(gin, DoubleNewlines(escapeLatexSpecialChars(gin.x)))
      [] OTHER -> gout = StatedLiteral(gin, Trim(DoubleNewlines(gin.x)))

\* a block equation rendered with the trailing newline
C23_Witness == gpc = "literaldone" /\ gin.kind = "eqBlock" /\ gin.labels = <<>> /\ Trim(gin.x) = gin.x /\ gin.x # <<>>

\* a plain block equation, rendered with a newline after the closing $$
C23_Counterexample ==
  gpc = "literaldone" /\ gin.kind = "eqBlock" /\ gin.labels = <<>> /\ gin.x = <<"E", "=", "m", "c">>
  /\ gout # StatedLiteral(gin, gin.x)


\* ------------------------------------------------------------------
\* escapeLatexSpecialChars on its own
\* ------------------------------------------------------------------
MaxEscLen == 4
EscChars == {"a", "%", "\\", "_"}
\* the examples of the escaping tests
EscExamples == {<<"5", "0", "%">>, <<"5", "0", "\\", "%", " ", "o", "f", "f">>, <<"5", "0", "%", " ", "o", "f", "f", " ", "&", " ", "m", "o", "r", "e">>, <<"s", "n", "a", "k", "e", "_", "c", "a", "s", "e">>, <<"a", "\\", "\\", "_", "b">>}
EscInputs == UNION {[1..n -> EscChars] : n \in 0..MaxEscLen} \cup EscExamples

EscInit ==
  /\ RIdle /\ MIdle /\ NIdle /\ FIdle /\ XIdle
  /\ gpc = "escape"
  /\ gin \in EscInputs
  /\ gout = <<>>

\* escapeLatexSpecialChars(text)
Escape ==
  /\ gpc = "escape"
  /\ gout' = escapeLatexSpecialChars(gin)
  /\ gpc' = "escapedone"
  /\ UNCHANGED gin
  /\ UNCHANGED vars
  /\ UNCHANGED mvars
  /\ UNCHANGED nvars
  /\ UNCHANGED fvars
  /\ UNCHANGED xvars

EscSpec == EscInit /\ [][Escape]_gvars

\* length of the run of backslashes right before 1-based position k
RunBefore(s, k) ==
  CHOOSE r \in 0..(k - 1) : (\A j \in (k - r)..(k - 1) : s[j] = "\\") /\ (k - r - 1 < 1 \/ s[k - r - 1] # "\\")

\* positions that get a backslash: special, after an even run of backslashes
Inserted(s) == {k \in 1..Len(s) : s[k] \in LatexSpecialChars /\ RunBefore(s, k) % 2 = 0}

\* where the k-th input character lands in the output
Shifted(s, k) == k + Cardinality({j \in Inserted(s) : j <= k})

\* the output is the input with one backslash put before exactly the positions of Inserted
EscRule ==
  /\ Len(gout) = Len(gin) + Cardinality(Inserted(gin))
  /\ \A k \in 1..Len(gin) :
       /\ gout[Shifted(gin, k)] = gin[k]
       /\ k \in Inserted(gin) => gout[Shifted(gin, k) - 1] = "\\"

\* ---- C24 ----
\* C24 (as stated): the rule, and the examples: "50\% off" renders unchanged,
\* "50% off & more" -> "50\% off \& more", "snake_case" -> "snake\_case".
C24_Original ==
  gpc = "escapedone" =>
    /\ EscRule
    /\ gin = <<"5", "0", "\\", "%", " ", "o", "f", "f">> => gout = gin
    /\ gin = <<"5", "0", "%", " ", "o", "f", "f", " ", "&", " ", "m", "o", "r", "e">> => gout = <<"5", "0", "\\", "%", " ", "o", "f", "f", " ", "\\", "&", " ", "m", "o", "r", "e">>
    /\ gin = <<"s", "n", "a", "k", "e", "_", "c", "a", "s", "e">> => gout = <<"s", "n", "a", "k", "e", "\\", "_", "c", "a", "s", "e">>

\* C24: a special character (backslash included) gets a backslash exactly when
\* an even number of backslashes precede it; since a lone backslash is itself
\* escaped, "50\% off" -> "50\\% off" and no text containing a backslash
\* renders unchanged; "50% off & more" -> "50\% off \& more", "snake_case" ->
\* "snake\_case".
C24_Escaping ==
  gpc = "escapedone" =>
    /\ EscRule
    /\ gin = <<"5", "0", "\\", "%", " ", "o", "f", "f">> => gout = <<"5", "0", "\\", "\\", "%", " ", "o", "f", "f">>
    /\ gin = <<"5", "0", "%", " ", "o", "f", "f", " ", "&", " ", "m", "o", "r", "e">> => gout = <<"5", "0", "\\", "%", " ", "o", "f", "f", " ", "\\", "&", " ", "m", "o", "r", "e">>
    /\ gin = <<"s", "n", "a", "k", "e", "_", "c", "a", "s", "e">> => gout = <<"s", "n", "a", "k", "e", "\\", "_", "c", "a", "s", "e">>
    /\ (\E k \in 1..Len(gin) : gin[k] = "\\") => gout # gin

\* a special character after two backslashes is escaped again
C24_Witness ==
  gpc = "escapedone" /\ \E k \in 3..Len(gin) : gin[k] \in {"%", "_"} /\ gin[k - 1] = "\\" /\ gin[k - 2] = "\\" /\ RunBefore(gin, k) = 2

\* already escaped text that does not render unchanged
C24_Counterexample == gpc = "escapedone" /\ gin = <<"5", "0", "\\", "%", " ", "o", "f", "f">> /\ gout # gin


\* ------------------------------------------------------------------
\* AbstractTokenNode ownership: addChild / removeChild / clearChildren
\* ------------------------------------------------------------------
TreeNodes == 1..3
\* null parent
NoParent == 0
\* cap on the length of a children list, so that the state space is finite
MaxKids == 2

\* _parent = null, _children = [] for every constructed node
EmptyForest == [ch |-> [n \in TreeNodes |-> <<>>], par |-> [n \in TreeNodes |-> NoParent]]

\* first index of c in sq (indexOf), 0 when absent
SeqIndex(sq, c) == IF \E k \in DOMAIN sq : sq[k] = c THEN CHOOSE k \in DOMAIN sq : sq[k] = c /\ \A j \in 1..(k - 1) : sq[j] # c ELSE 0

\* splice(index, 1)
RemoveAt(sq, k) == SubSeq(sq, 1, k - 1) \o SubSeq(sq, k + 1, Len(sq))

\* p.addChild(c): push, then c.parent = p
addChild(st, p, c) == [ch |-> [st.ch EXCEPT ![p] = Append(@, c)], par |-> [st.par EXCEPT ![c] = p]]

\* mutant: the parent pointer is left as it was
removeChildKeepParent(st, p, c) ==
  LET k == SeqIndex(st.ch[p], c) IN
  IF k # 0 THEN [ch |-> [st.ch EXCEPT ![p] = RemoveAt(@, k)], par |-> st.par] ELSE st

\* p.removeChild(c): first occurrence spliced out and c.parent = null, if present
removeChild(st, p, c) ==
  LET k == SeqIndex(st.ch[p], c) IN
  IF k # 0 THEN [ch |-> [st.ch EXCEPT ![p] = RemoveAt(@, k)], par |-> [st.par EXCEPT ![c] = NoParent]] ELSE st

\* p.clearChildren(): every listed child's parent = null, then the list emptied
clearChildren(st, p) ==
  [ch |-> [st.ch EXCEPT ![p] = <<>>],
   par |-> [n \in TreeNodes |-> IF \E k \in DOMAIN st.ch[p] : st.ch[p][k] = n THEN NoParent ELSE st.par[n]]]

TreeInit ==
  /\ RIdle /\ MIdle /\ NIdle /\ FIdle /\ XIdle
  /\ gpc = "tree"
  /\ gin = EmptyForest
  /\ gout = <<>>

AddChild ==
  /\ gpc = "tree"
  /\ \E p, c \in TreeNodes :
       /\ Len(gin.ch[p]) < MaxKids
       /\ gin' = addChild(gin, p, c)
  /\ UNCHANGED <<gpc, gout>>
  /\ UNCHANGED vars
  /\ UNCHANGED mvars
  /\ UNCHANGED nvars
  /\ UNCHANGED fvars
  /\ UNCHANGED xvars

RemoveChild ==
  /\ gpc = "tree"
  /\ \E p, c \in TreeNodes : gin' = removeChild(gin, p, c)
  /\ gin' # gin
  /\ UNCHANGED <<gpc, gout>>
  /\ UNCHANGED vars
  /\ UNCHANGED mvars
  /\ UNCHANGED nvars
  /\ UNCHANGED fvars
  /\ UNCHANGED xvars

ClearChildren ==
  /\ gpc = "tree"
  /\ \E p \in TreeNodes : gin' = clearChildren(gin, p)
  /\ gin' # gin
  /\ UNCHANGED <<gpc, gout>>
  /\ UNCHANGED vars
  /\ UNCHANGED mvars
  /\ UNCHANGED nvars
  /\ UNCHANGED fvars
  /\ UNCHANGED xvars

\* node.parent = p (public setter, p may be null): the parent pointer alone;
\* gout records that the tree was changed outside addChild / removeChild /
\* clearChildren
SetParent ==
  /\ gpc = "tree"
  /\ \E c \in TreeNodes, p \in TreeNodes \cup {NoParent} :
       gin' = [gin EXCEPT !.par[c] = p]
  /\ gin' # gin
  /\ gout' = <<"external">>
  /\ UNCHANGED gpc
  /\ UNCHANGED vars
  /\ UNCHANGED mvars
  /\ UNCHANGED nvars
  /\ UNCHANGED fvars
  /\ UNCHANGED xvars

\* in-place edit of p.children by a caller: the getter returns the internal
\* _children array itself, so push, pop, shift, unshift, splice, reverse,
\* children[k] = c and children.length = 0 all change the list and leave every
\* _parent alone; one splice(0, len, ...items) call can produce any list, so a
\* step sets the list to any sequence of nodes of length at most MaxKids
KidLists == UNION {[1..n -> TreeNodes] : n \in 0..MaxKids}

ChildrenEdit ==
  /\ gpc = "tree"
  /\ \E p \in TreeNodes, l \in KidLists :
       /\ l # gin.ch[p]
       /\ gin' = [gin EXCEPT !.ch[p] = l]
  /\ gout' = <<"external">>
  /\ UNCHANGED gpc
  /\ UNCHANGED vars
  /\ UNCHANGED mvars
  /\ UNCHANGED nvars
  /\ UNCHANGED fvars
  /\ UNCHANGED xvars

TreeNext == AddChild \/ RemoveChild \/ ClearChildren \/ SetParent \/ ChildrenEdit

TreeSpec == TreeInit /\ [][TreeNext]_gvars

\* the children lists that hold node c, with multiplicity
Holders(c) == {<<p, k>> \in TreeNodes \X (1..MaxKids) : k <= Len(gin.ch[p]) /\ gin.ch[p][k] = c}
InList(c, p) == \E k \in DOMAIN gin.ch[p] : gin.ch[p][k] = c

\* ---- C25 ----
\* C25 (as stated): after addChild / removeChild / clearChildren calls only,
\* every node is in at most one children list (once),
\* parent = P iff the node is in P's list, and a node with a null parent is in
\* no list.
C25_Original ==
  gout = <<>> =>
  \A c \in TreeNodes :
    /\ Cardinality(Holders(c)) <= 1
    /\ \A p \in TreeNodes : gin.par[c] = p <=> InList(c, p)
    /\ gin.par[c] = NoParent => Holders(c) = {}

\* C25: after addChild / removeChild / clearChildren calls only (the parent
\* setter and in-place edits of the children array break it), only one direction
\* holds: a node whose parent is P is in P's children list. addChild does not detach the node from its old parent, so a node can
\* sit in several lists (or twice in one), and removeChild / clearChildren on
\* the old parent null the pointer while the node is still in the new list.
C25_Ownership == gout = <<>> => \A c \in TreeNodes : gin.par[c] # NoParent => InList(c, gin.par[c])

\* a node re-added to a second parent
C25_Witness == gout = <<>> /\ \E c, p, q \in TreeNodes : p # q /\ InList(c, p) /\ InList(c, q) /\ gin.par[c] = q

\* a node in two children lists
C25_Counterexample == gout = <<>> /\ \E c \in TreeNodes : Cardinality(Holders(c)) > 1


\* ------------------------------------------------------------------
\* SpanMatcher.matchExcerpt with a normalizer, findAll and any excerpt
\* ------------------------------------------------------------------
\* cap on the loop iterations, above the occurrence count of any nonempty excerpt
MaxMatchIter == 16

MatchLoopTexts == {<<"a", " ", "b">>, <<"a">> \o LabelA \o <<" ", "a">>}
MatchLoopExcerpts == {<<>>, <<" ">>, LabelA, <<"a">>, <<"a", " ">>}

\* new SpanMatcher(spans, text, createLatexNormalizer()): the normalized text and
\* posMap are computed once by the constructor
MatchLoopInit ==
  /\ RIdle /\ MIdle /\ NIdle /\ FIdle /\ XIdle
  /\ gpc = "mentry"
  /\ \E t \in MatchLoopTexts, ex \in MatchLoopExcerpts, un \in BOOLEAN, fAll \in BOOLEAN :
       gin = [text |-> t, sorted |-> SortSpans(NormSpans(t)), norm |-> Normalize("latex", t),
              excerpt |-> ex, useNorm |-> un, findAll |-> fAll]
  /\ gout = <<>>

\* matchExcerpt: searchExcerpt (normalized when useNorm), searchStart = 0
MatchLoopEntry ==
  /\ gpc = "mentry"
  /\ gout' = [se |-> IF gin.useNorm THEN Normalize("latex", gin.excerpt).normalized ELSE gin.excerpt,
              ss |-> 0, res |-> <<>>, iter |-> 0]
  /\ gpc' = "mloop"
  /\ UNCHANGED gin
  /\ UNCHANGED vars
  /\ UNCHANGED mvars
  /\ UNCHANGED nvars
  /\ UNCHANGED fvars
  /\ UNCHANGED xvars

\* searchText of the call
MatchLoopText == IF gin.useNorm THEN gin.norm.normalized ELSE gin.text

\* one iteration of while (true): indexOf, map back, findNodesForRange, break or advance
MatchLoopStep ==
  /\ gpc = "mloop"
  /\ gout.iter < MaxMatchIter
  /\ LET matchIndex == IndexOf(MatchLoopText, gout.se, gout.ss)
         rows == IF gin.useNorm
                 THEN NormMatchRange(gin.sorted, gout.se, matchIndex, PosMapAt(gin.norm.posMap, matchIndex),
                                     NormMatchEnd(gin.norm.posMap, matchIndex, Len(gout.se))).rows
                 ELSE findNodesForRange(gin.sorted, matchIndex, matchIndex + Len(gin.excerpt))
     IN IF matchIndex = -1
        THEN /\ gpc' = "mdone"
             /\ gout' = [gout EXCEPT !.iter = @ + 1]
        ELSE /\ gpc' = IF gin.findAll THEN "mloop" ELSE "mdone"
             /\ gout' = [gout EXCEPT !.res = @ \o rows, !.iter = @ + 1,
                                     !.ss = IF gin.findAll THEN matchIndex + 1 ELSE @]
  /\ UNCHANGED gin
  /\ UNCHANGED vars
  /\ UNCHANGED mvars
  /\ UNCHANGED nvars
  /\ UNCHANGED fvars
  /\ UNCHANGED xvars

MatchLoopNext == MatchLoopEntry \/ MatchLoopStep

MatchLoopSpec == MatchLoopInit /\ [][MatchLoopNext]_gvars

\* the loop runs whenever it can
MatchLoopFairSpec == MatchLoopSpec /\ WF_gvars(MatchLoopStep)

\* ---- C26 ----
\* C26: every matchExcerpt call returns, for every excerpt and option
\* combination (findAll with an excerpt that is or normalizes to empty included).
C26_Original == (gpc = "mloop") ~> (gpc = "mdone")


\* ------------------------------------------------------------------
\* LatexNormalizer.normalize on texts mixing comments, labels and newlines
\* ------------------------------------------------------------------
MaxCommentPieces == 4
CommentPieces == {<<"%">>, LabelPiece, <<"\n">>, <<"a">>}
CommentTexts == {Flatten(ps) : ps \in SeqsUpTo(CommentPieces, MaxCommentPieces)}

CommentInit ==
  /\ RIdle /\ MIdle /\ NIdle /\ FIdle /\ XIdle
  /\ gpc = "lnorm"
  /\ gin \in CommentTexts
  /\ gout = <<>>

\* createLatexNormalizer().normalize(text)
NormalizeLatex ==
  /\ gpc = "lnorm"
  /\ gout' = Normalize("latex", gin)
  /\ gpc' = "lnormdone"
  /\ UNCHANGED gin
  /\ UNCHANGED vars
  /\ UNCHANGED mvars
  /\ UNCHANGED nvars
  /\ UNCHANGED fvars
  /\ UNCHANGED xvars

CommentSpec == CommentInit /\ [][NormalizeLatex]_gvars

\* the start of regex match r lies inside a % comment match of the text
InComment(text, r) == \E c \in Range(ExecAll(text, "comment", 0)) : r.start \in MatchPositions(c)

\* ---- C27 ----
\* C27: every \label{...} match whose start is not inside a % comment match has
\* none of its characters kept by LatexNormalizer.normalize, even when an
\* earlier removal match overlaps another.
C27_Original ==
  gpc = "lnormdone" =>
    \A r \in Range(ExecAll(gin, "label", 0)) :
      ~InComment(gin, r) => MatchPositions(r) \cap Range(gout.posMap) = {}


\* ------------------------------------------------------------------
\* toLatexWithSpans / toMarkdownWithSpans, then new SpanMatcher(spans, content)
\* and findNodeAtPosition, with the spans Map in insertion order
\* ------------------------------------------------------------------
\* containers whose only descendant text has the container's own span
WrapperTrees ==
  {Tree(2 :> a, 1 :> "group", 1 :> <<2>>, <<>>, <<>>, <<1>>) : a \in LeafChoices}
  \cup
  {Tree(3 :> a @@ 4 :> b, 1 :> "group" @@ 2 :> "group", 1 :> <<2>> @@ 2 :> <<3>>, <<>>, <<>>, <<1, 4>>) :
     a, b \in LeafChoices}
SpanQueryTrees == Trees \cup WrapperTrees

\* nodes set by findMissingChildSpans below n, in the order of the spans.set calls:
\* a child is set and then its own children are visited
RECURSIVE FoundBelow(_, _, _), FoundChildren(_, _, _)
FoundBelow(t, n, sp) == FoundChildren(t, t.ch[n], sp)
FoundChildren(t, cs, sp) ==
  IF cs = <<>> THEN <<>>
  ELSE (IF sp[Head(cs)] # NoSpan THEN <<Head(cs)>> \o FoundBelow(t, Head(cs), sp) ELSE <<>>)
       \o FoundChildren(t, Tail(cs), sp)

RECURSIVE FoundUnderRoots(_, _, _)
FoundUnderRoots(t, rs, sp) == IF rs = <<>> THEN <<>> ELSE FoundBelow(t, Head(rs), sp) \o FoundUnderRoots(t, Tail(rs), sp)

\* the keys of the spans Map in insertion order: the top-level nodes (tracker),
\* then the children found by findMissingChildSpans
InsertionOrder(t, sp) == SelectSeq(t.roots, LAMBDA n : sp[n] # NoSpan) \o FoundUnderRoots(t, t.roots, sp)

\* Array.from(spans.entries()) as { nodeId, start, end, type }
SpanEntries(t, sp) ==
  LET ord == InsertionOrder(t, sp)
  IN [k \in DOMAIN ord |-> [nodeId |-> ord[k], start |-> sp[ord[k]].start, end |-> sp[ord[k]].end, type |-> sp[ord[k]].type]]

\* toLatexWithSpans (fmt "latex") / toMarkdownWithSpans (fmt "markdown")
WithSpans(f, t) ==
  LET r == ListRenderAcc(f, t, t.roots, 1, <<>>, [on |-> TRUE, spans |-> [n \in Ids |-> NoSpan], cur |-> 0, pp |-> "none"])
  IN [content |-> r.s, spans |-> findMissingChildSpans(Callbacks(f, t, "none"), t, t.roots, r.s, r.tr.spans)]

PointInit ==
  /\ RIdle /\ MIdle /\ NIdle /\ FIdle /\ XIdle
  /\ gpc = "export"
  /\ gin \in [tree : SpanQueryTrees, fmt : {"latex", "markdown"}]
  /\ gout = <<>>

\* the export, then the SpanMatcher constructor sorting the Map entries by start
ExportWithSpans ==
  /\ gpc = "export"
  /\ LET w == WithSpans(gin.fmt, gin.tree)
     IN gout' = [content |-> w.content, sorted |-> SortSpans(SpanEntries(gin.tree, w.spans)),
                 pos |-> 0, res |-> NullSpan]
  /\ gpc' = "exported"
  /\ UNCHANGED gin
  /\ UNCHANGED vars
  /\ UNCHANGED mvars
  /\ UNCHANGED nvars
  /\ UNCHANGED fvars
  /\ UNCHANGED xvars

\* matcher.findNodeAtPosition(pos)
QueryPoint ==
  /\ gpc = "exported"
  /\ \E pos \in -1..Len(gout.content) :
       gout' = [gout EXCEPT !.pos = pos, !.res = findNodeAtPosition(gout.sorted, pos)]
  /\ gpc' = "queried"
  /\ UNCHANGED gin
  /\ UNCHANGED vars
  /\ UNCHANGED mvars
  /\ UNCHANGED nvars
  /\ UNCHANGED fvars
  /\ UNCHANGED xvars

PointNext == ExportWithSpans \/ QueryPoint

PointSpec == PointInit /\ [][PointNext]_gvars

\* the Map entries whose span contains the queried position
Containing == {gout.sorted[k] : k \in {j \in DOMAIN gout.sorted : ContainsPos(gout.sorted[j], gout.pos)}}
\* nesting depth: number of ancestors-or-self
Depth(n) == Cardinality({a \in Reach(gin.tree) : n \in Subtree(gin.tree, a)})

\* ---- C28 ----
\* C28 (as stated): findNodeAtPosition returns a node whose span contains pos
\* and is nested at least as deeply as every node whose span contains pos
\* (null when none does).
C28_Original ==
  gpc = "queried" =>
    /\ (Containing = {}) <=> (gout.res = NullSpan)
    /\ gout.res # NullSpan =>
         /\ gout.res \in Containing
         /\ \A e \in Containing : Depth(e.nodeId) <= Depth(gout.res.nodeId)

\* C28: findNodeAtPosition returns a narrowest span containing pos, among those
\* the one with the smallest start, and among identical spans the outermost
\* node, since a node is put in the Map before its descendants and the stable
\* sort and the strict comparison keep the first.
C28_Outermost ==
  gpc = "queried" =>
    /\ (Containing = {}) <=> (gout.res = NullSpan)
    /\ gout.res # NullSpan =>
         /\ gout.res \in Containing
         /\ \A e \in Containing :
              /\ SpanWidth(gout.res) <= SpanWidth(e)
              /\ SpanWidth(gout.res) = SpanWidth(e) => gout.res.start <= e.start
              /\ SpanWidth(gout.res) = SpanWidth(e) /\ gout.res.start = e.start =>
                   e.nodeId \in Subtree(gin.tree, gout.res.nodeId)

\* a container whose span equals its child's, queried inside it
C28_Witness ==
  /\ gpc = "queried" /\ gout.res # NullSpan
  /\ \E e \in Containing : e.nodeId # gout.res.nodeId /\ e.start = gout.res.start /\ e.end = gout.res.end

\* a query returning the group instead of its only text child
C28_Counterexample ==
  /\ gpc = "queried" /\ gout.res # NullSpan
  /\ \E e \in Containing : Depth(e.nodeId) > Depth(gout.res.nodeId)


\* ------------------------------------------------------------------
\* Section title spans recorded by toLatexWithSpans
\* ------------------------------------------------------------------
\* title texts, some of which also occur in the heading command
TitleWords == {<<"s", "e", "c">>, <<"t", "i", "o", "n">>, <<"n">>, <<"b">>, <<"I", "n", "t", "r", "o">>, <<"u", "b">>}

\* a top-level section of either level with a title text and a content text
TitleTrees ==
  {Tree(2 :> [kind |-> "text", raw |-> w] @@ 3 :> c, 1 :> "section", 1 :> <<2, 3>>, 2 :> "title", 1 :> lvl, r) :
     w \in TitleWords, c \in LeafChoices, lvl \in {1, 2}, r \in {<<1>>}}
  \cup
  {Tree(2 :> [kind |-> "text", raw |-> w] @@ 3 :> c @@ 5 :> c, 1 :> "section" @@ 4 :> "group", 1 :> <<2, 3>> @@ 4 :> <<5>>,
        2 :> "title", 1 :> 1, <<4, 1>>) :
     w \in TitleWords, c \in LeafChoices}

TitleInit ==
  /\ RIdle /\ MIdle /\ NIdle /\ FIdle /\ XIdle
  /\ gpc = "export"
  /\ gin \in [tree : TitleTrees \cup Trees, fmt : {"latex"}]
  /\ gout = <<>>

TitleSpec == TitleInit /\ [][ExportWithSpans]_gvars

\* the recorded span of node n, NullSpan if none
EntryOf(n) == IF \E k \in DOMAIN gout.sorted : gout.sorted[k].nodeId = n
              THEN gout.sorted[CHOOSE k \in DOMAIN gout.sorted : gout.sorted[k].nodeId = n] ELSE NullSpan

\* sections with a non-empty title, and the offset of their opening brace's successor
TitledSections == {s \in Reach(gin.tree) : gin.tree.kind[s] = "section" /\ Len(getTitleData(gin.tree, s)) > 0}
BraceEnd(s) == Len(SectionPrefix(gin.tree.level[s])) + 1

\* ---- C29 ----
\* C29 (as stated): every recorded span of a title child of a section starts
\* inside the braces of the heading command, at or after the command plus '{'.
C29_Original ==
  gpc = "exported" =>
    \A s \in TitledSections :
     \A c \in Range(getTitleData(gin.tree, s)) :
      EntryOf(c) # NullSpan /\ EntryOf(s) # NullSpan =>
        EntryOf(c).start >= EntryOf(s).start + BraceEnd(s)

\* C29: the first title child's span is found by searching the section's output
\* from its start: it starts right after "\section{" when its LaTeX does not
\* occur earlier in the heading, and otherwise at that earlier occurrence inside
\* the command name.
C29_TitleSpan ==
  gpc = "exported" =>
    \A s \in TitledSections :
      LET c == Head(getTitleData(gin.tree, s))
          out == getNodeContent("latex", gin.tree, c, "none")
          early == IndexOf(SectionPrefix(gin.tree.level[s]) \o <<"{">> \o out, out, 0)
      IN EntryOf(c) # NullSpan /\ EntryOf(s) # NullSpan =>
           IF early >= BraceEnd(s) THEN EntryOf(c).start = EntryOf(s).start + BraceEnd(s)
           ELSE EntryOf(c).start = EntryOf(s).start + early

\* a title found inside the braces after the first top-level node
C29_Witness ==
  /\ gpc = "exported"
  /\ \E s \in TitledSections :
       /\ EntryOf(s).start > 0
       /\ EntryOf(Head(getTitleData(gin.tree, s))).start = EntryOf(s).start + BraceEnd(s)

\* a title whose span lies inside "\section"
C29_Counterexample ==
  /\ gpc = "exported"
  /\ \E s \in TitledSections :
       LET c == Head(getTitleData(gin.tree, s))
       IN EntryOf(c) # NullSpan /\ EntryOf(c).start < EntryOf(s).start + BraceEnd(s)


\* ---- C30 ----
\* offsets of the occurrences of the excerpt in the content
VerbatimAt(ctext, excerpt) == {k \in 0..(Len(ctext) - Len(excerpt)) : SubSeq(ctext, k + 1, k + Len(excerpt)) = excerpt}
\* the case of the claim at the default threshold
VerbatimCase ==
  /\ fpc = "fuzzydone" /\ fthr = Ratio(7, 10)
  /\ Len(normalizeForComparison(fb)) >= 10
  /\ VerbatimAt(fa, fb) # {}

\* C30 (as stated): for an excerpt of at least 10 normalized characters that
\* occurs verbatim in content, the result is [i, i + excerpt.length) with score
\* 1 for some occurrence i.
C30_Original ==
  VerbatimCase =>
    /\ fres.found /\ RatEq(fres.score, Ratio(1, 1))
    /\ \E k \in VerbatimAt(fa, fb) : fres.start = k /\ fres.end = k + Len(fb)

====
